---- MODULE Spec2Model ----
(***************************************************************************)
(* Model of musicbrain's safe batch-rename engine (safer_mass_rename.py):  *)
(* RenameItem, MassRenamingResult and RenamingPlan, over a small directory *)
(* whose files are told apart by their content; and of its sided media     *)
(* (audio_metadata.py): SidedTrackPosition, Track, MediumSide, BothSides   *)
(* and Medium, with strings held as sequences of code points.              *)
(***************************************************************************)
EXTENDS Integers, Sequences, FiniteSets, TLC

(* ------------------------------ bounds --------------------------------- *)

\* file names a caller may pass to add(): the paths 1..NumPaths
NumPaths == 4
\* uuid values make_intermediate_path may draw, per source path
NumUuids == 1
\* items a plan queues
MaxPlan == 3
\* paths a caller puts in overwrite_allowed
MaxOverwrite == 1
\* execute() calls over the life of a plan object
MaxExecs == 2
\* os.rename calls that the operating system lets fail
MaxFails == 1

(* ------------------------------ paths ---------------------------------- *)

\* The paths callers name.
Paths == 1..NumPaths
\* The intermediate names '<stem>.<uuid><suffix>' of source path p.
IntermediateNames(p) == {u * NumPaths + p : u \in 1..NumUuids}
\* Every path of the directory.
AllPaths == 1..(NumPaths * (NumUuids + 1))
\* intermediate_path = None
NoPath == 0
\* fs[p] = NoFile: nothing exists at path p; else fs[p] is the file's content
NoFile == 0

(* ------------------------- state constants ----------------------------- *)

READY == "ready"
INDIRECTION_REQUIRED == "indirection required"
INDIRECTION_IN_PROGRESS == "indirection in progress"
INDIRECTION_FAILED == "indirection failed"
DONE == "done"
NO_RENAME_REQUIRED == "no rename required"

States ==
    {READY, INDIRECTION_REQUIRED, INDIRECTION_IN_PROGRESS,
     INDIRECTION_FAILED, DONE, NO_RENAME_REQUIRED}

VARIABLES
    fs,                 \* the directory: path -> content, NoFile if absent
    work_queue,         \* RenamingPlan.__work_queue
    unchanged_paths,    \* RenamingPlan.__unchanged_paths
    pc,                 \* "idle", or the loop execute() is in
    overwrite_allowed,  \* execute()'s overwrite_allowed set
    resolver_queue,     \* execute()'s resolver_queue
    result,             \* the MassRenamingResult of the running/last execute
    last_add,           \* the last add() call: arguments, exception, item state
    prev_queue,         \* work_queue before the last add() call
    prev_unchanged,     \* unchanged_paths before the last add() call
    clean_adds,         \* every add() to this plan had a new source and a new
                        \* target, different from its source
    seen_sources,       \* the sources of those add() calls ({} once
                        \* clean_adds is false)
    seen_targets,       \* the targets of those add() calls (likewise)
    n_execs,            \* execute() calls that returned
    n_fails,            \* os.rename calls that raised OSError so far
    fs0,                \* fs when the running/last execute started
    plan0,              \* work_queue when the running/last execute started
    unchanged0,         \* unchanged_paths when that execute started
    exec_fails,         \* OSErrors raised during the running/last execute
    visits,             \* source path -> times taken from resolver_queue
    last_exc,           \* what the last loop iteration's rename call raised
    last_op,            \* the last call that ended: "none", "add", "execute",
                        \* or "raised" for an execute() that raised
    repeated            \* the running/last execute directly followed another

VARIABLES
    tracks,             \* the Track objects of the medium, in the order of
                        \* their add_track calls
    medium,             \* the Medium object
    call,               \* the last call to the medium: its name, what it
                        \* raised, its boundary argument, its return value
    declared_before     \* what get_declared_sides returned or raised if it
                        \* was the call before the last, else NotDeclared

VARIABLES
    translators,        \* the list of Translator objects of the chain
    translated          \* the last translate call of the chain: its text
                        \* and what it returned

VARIABLES
    items,              \* the RenameItem objects a caller has built
    item_call           \* the last call of a RenameItem method: its name,
                        \* the item it was called on, what it raised

VARIABLES
    renaming,           \* the __rename_path call that has checked its
                        \* destination and not yet renamed, else NoRenaming
    interference        \* files an external actor has created, and whether
                        \* a rename replaced a file it was not allowed to

rename_vars ==
    <<fs, work_queue, unchanged_paths, pc, overwrite_allowed, resolver_queue,
      result, last_add, prev_queue, prev_unchanged, clean_adds, seen_sources,
      seen_targets, n_execs, n_fails, fs0, plan0, unchanged0, exec_fails,
      visits, last_exc, last_op, repeated>>

medium_vars == <<tracks, medium, call, declared_before>>

chain_vars == <<translators, translated>>

item_vars == <<items, item_call>>

race_vars == <<renaming, interference>>

vars == <<rename_vars, medium_vars, chain_vars, item_vars, race_vars>>

\* the variables that describe the add() calls to the plan being built
add_vars ==
    <<last_add, prev_queue, prev_unchanged, clean_adds, seen_sources,
      seen_targets>>

(* ---------------------------- RenameItem ------------------------------- *)

\* pathlib.Path.exists / is_file (the directory holds regular files only)
Exists(f, p) == f[p] # NoFile

\* os.rename on POSIX: replaces an existing destination
OsRename(f, source, target) ==
    [f EXCEPT ![target] = f[source], ![source] = NoFile]

\* RenameItem.__init__ for a source that is an existing file
RenameItem(source, target) ==
    [source_path |-> source,
     target_path |-> target,
     intermediate_path |-> NoPath,
     state |-> IF source = target THEN NO_RENAME_REQUIRED ELSE READY]

\* a __rename_path that does not look at the destination
rename_path_unchecked(f, source, target, ov, oserr) ==
    IF oserr \/ ~Exists(f, source)
    THEN [exc |-> "OSError", fs |-> f]
    ELSE [exc |-> "none", fs |-> [f EXCEPT ![target] = f[source], ![source] = NoFile]]

\* a __rename_path that forgets overwrite_allowed
rename_path_never_overwrites(f, source, target, ov, oserr) ==
    IF Exists(f, target)
    THEN [exc |-> "DestinationPathExists", fs |-> f]
    ELSE IF oserr \/ ~Exists(f, source)
    THEN [exc |-> "OSError", fs |-> f]
    ELSE [exc |-> "none", fs |-> [f EXCEPT ![target] = f[source], ![source] = NoFile]]

\* RenameItem.__rename_path; oserr: the operating system refuses the rename
rename_path(f, source, target, ov, oserr) ==
    IF Exists(f, target) /\ target \notin ov
    THEN [exc |-> "DestinationPathExists", fs |-> f]
    ELSE IF oserr \/ ~Exists(f, source)
    THEN [exc |-> "OSError", fs |-> f]
    ELSE [exc |-> "none", fs |-> OsRename(f, source, target)]

\* a do_rename that forgets to set the state after a successful rename
do_rename_keeps_state(item, f, ov, oserr) ==
    IF item.state # READY
    THEN [exc |-> "ValueError", item |-> item, fs |-> f]
    ELSE LET r == rename_path(f, item.source_path, item.target_path, ov, oserr)
         IN  CASE r.exc = "DestinationPathExists" ->
                    [exc |-> r.exc,
                     item |-> [item EXCEPT !.state = INDIRECTION_REQUIRED],
                     fs |-> f]
               [] OTHER ->
                    [exc |-> r.exc, item |-> item, fs |-> r.fs]

\* RenameItem.do_rename
do_rename(item, f, ov, oserr) ==
    IF item.state # READY
    THEN [exc |-> "ValueError", item |-> item, fs |-> f]
    ELSE LET r == rename_path(f, item.source_path, item.target_path, ov, oserr)
         IN  CASE r.exc = "DestinationPathExists" ->
                    [exc |-> r.exc,
                     item |-> [item EXCEPT !.state = INDIRECTION_REQUIRED],
                     fs |-> f]
               [] r.exc = "OSError" ->
                    [exc |-> r.exc, item |-> item, fs |-> f]
               [] OTHER ->
                    [exc |-> "none",
                     item |-> [item EXCEPT !.state = DONE],
                     fs |-> r.fs]

\* RenameItem.make_intermediate_path: the names its loop can return
make_intermediate_path(item, f) ==
    {p \in IntermediateNames(item.source_path) : ~Exists(f, p)}

\* RenameItem.rename_conflicting, pass 1 (state INDIRECTION_REQUIRED)
rename_conflicting_pass1(item, f, oserr, new_path) ==
    LET item1 == [item EXCEPT !.intermediate_path = new_path]
        r == rename_path(f, item.source_path, new_path, {}, oserr)
    IN  IF r.exc = "none"
        THEN [exc |-> "FinalRenameRequired",
              item |-> [item1 EXCEPT !.state = INDIRECTION_IN_PROGRESS],
              fs |-> r.fs]
        ELSE [exc |-> r.exc, item |-> item1, fs |-> f]

\* a pass 2 that gives up without moving the file back
rename_conflicting_pass2_no_rollback(item, f, ov, oserr) ==
    LET r == rename_path(f, item.intermediate_path, item.target_path, ov, oserr)
    IN  CASE r.exc = "DestinationPathExists" ->
               [exc |-> "DestinationPathExists",
                item |-> [item EXCEPT !.state = INDIRECTION_FAILED],
                fs |-> f]
          [] r.exc = "OSError" ->
               [exc |-> r.exc, item |-> item, fs |-> f]
          [] OTHER ->
               [exc |-> "none",
                item |-> [item EXCEPT !.state = DONE],
                fs |-> r.fs]

\* RenameItem.rename_conflicting, pass 2 (state INDIRECTION_IN_PROGRESS)
rename_conflicting_pass2(item, f, ov, oserr) ==
    LET r == rename_path(f, item.intermediate_path, item.target_path, ov, oserr)
        back == rename_path(f, item.intermediate_path, item.source_path, {}, oserr)
    IN  CASE r.exc = "DestinationPathExists" ->
               IF back.exc = "OSError"
               THEN [exc |-> "OSError", item |-> item, fs |-> f]
               ELSE [exc |-> "DestinationPathExists",
                     item |-> [item EXCEPT !.state = INDIRECTION_FAILED],
                     fs |-> back.fs]
          [] r.exc = "OSError" ->
               [exc |-> r.exc, item |-> item, fs |-> f]
          [] OTHER ->
               [exc |-> "none",
                item |-> [item EXCEPT !.state = DONE],
                fs |-> r.fs]

\* a rename_conflicting that tries a failed item once more
rename_conflicting_retries_failed(item, f, ov, oserr, new_path) ==
    IF item.state \in {READY, DONE, NO_RENAME_REQUIRED}
    THEN [exc |-> "ValueError", item |-> item, fs |-> f]
    ELSE IF item.state = INDIRECTION_REQUIRED
    THEN rename_conflicting_pass1(item, f, oserr, new_path)
    ELSE rename_conflicting_pass2(item, f, ov, oserr)

\* RenameItem.rename_conflicting
rename_conflicting(item, f, ov, oserr, new_path) ==
    IF item.state \notin {INDIRECTION_REQUIRED, INDIRECTION_IN_PROGRESS}
    THEN [exc |-> "ValueError", item |-> item, fs |-> f]
    ELSE IF item.state = INDIRECTION_REQUIRED
    THEN rename_conflicting_pass1(item, f, oserr, new_path)
    ELSE rename_conflicting_pass2(item, f, ov, oserr)

(* ------------------------- MassRenamingResult -------------------------- *)

\* MassRenamingResult.__init__
MassRenamingResult == [renamed_files |-> <<>>, conflicts |-> <<>>, errors |-> <<>>]

add_success(res, item) ==
    [res EXCEPT !.renamed_files = Append(@, item)]

\* an add_conflict that files the item under renamed_files
add_conflict_as_success(res, item) ==
    [res EXCEPT !.renamed_files = Append(@, item)]

add_conflict(res, item) ==
    [res EXCEPT !.conflicts = Append(@, item)]

add_error(res, item) ==
    [res EXCEPT !.errors = Append(@, item)]

(* ---------------------------- RenamingPlan ----------------------------- *)

Range(s) == {s[i] : i \in 1..Len(s)}

\* RenamingPlan.source_paths
source_paths(queue) == {item.source_path : item \in Range(queue)}

\* RenamingPlan.target_paths
target_paths(queue) == {item.target_path : item \in Range(queue)}

\* an add that looks for the target among the queued targets only
add_ignores_unchanged(queue, unchanged, f, source, target) ==
    IF ~Exists(f, source)
    THEN [exc |-> "ValueError", work_queue |-> queue, unchanged_paths |-> unchanged]
    ELSE IF source \in source_paths(queue) \cup unchanged
    THEN [exc |-> "DuplicateSourcePath", work_queue |-> queue,
          unchanged_paths |-> unchanged]
    ELSE IF target \in target_paths(queue)
    THEN [exc |-> "DuplicateTargetPath", work_queue |-> queue,
          unchanged_paths |-> unchanged]
    ELSE IF source = target
    THEN [exc |-> "none", work_queue |-> queue,
          unchanged_paths |-> unchanged \cup {source}]
    ELSE [exc |-> "none", work_queue |-> Append(queue, RenameItem(source, target)),
          unchanged_paths |-> unchanged]

\* an add that checks the target before the source
add_target_first(queue, unchanged, f, source, target) ==
    IF ~Exists(f, source)
    THEN [exc |-> "ValueError", work_queue |-> queue, unchanged_paths |-> unchanged]
    ELSE IF target \in target_paths(queue) \cup unchanged
    THEN [exc |-> "DuplicateTargetPath", work_queue |-> queue,
          unchanged_paths |-> unchanged]
    ELSE IF source \in source_paths(queue) \cup unchanged
    THEN [exc |-> "DuplicateSourcePath", work_queue |-> queue,
          unchanged_paths |-> unchanged]
    ELSE IF source = target
    THEN [exc |-> "none", work_queue |-> queue,
          unchanged_paths |-> unchanged \cup {source}]
    ELSE [exc |-> "none", work_queue |-> Append(queue, RenameItem(source, target)),
          unchanged_paths |-> unchanged]

\* an add that queues every accepted item, no-ops included
add_queues_noop(queue, unchanged, f, source, target) ==
    IF ~Exists(f, source)
    THEN [exc |-> "ValueError", work_queue |-> queue, unchanged_paths |-> unchanged]
    ELSE IF source \in source_paths(queue) \cup unchanged
    THEN [exc |-> "DuplicateSourcePath", work_queue |-> queue,
          unchanged_paths |-> unchanged]
    ELSE IF target \in target_paths(queue) \cup unchanged
    THEN [exc |-> "DuplicateTargetPath", work_queue |-> queue,
          unchanged_paths |-> unchanged]
    ELSE [exc |-> "none", work_queue |-> Append(queue, RenameItem(source, target)),
          unchanged_paths |-> IF source = target THEN unchanged \cup {source}
                              ELSE unchanged]

\* RenamingPlan.add: the exception raised ("none" if none) and the plan after
add(queue, unchanged, f, source, target) ==
    LET rename_item == RenameItem(source, target)
    IN  IF ~Exists(f, source)
        THEN [exc |-> "ValueError", work_queue |-> queue,
              unchanged_paths |-> unchanged]
        ELSE IF source \in source_paths(queue) \cup unchanged
        THEN [exc |-> "DuplicateSourcePath", work_queue |-> queue,
              unchanged_paths |-> unchanged]
        ELSE IF target \in target_paths(queue) \cup unchanged
        THEN [exc |-> "DuplicateTargetPath", work_queue |-> queue,
              unchanged_paths |-> unchanged]
        ELSE IF rename_item.state = NO_RENAME_REQUIRED
        THEN [exc |-> "none", work_queue |-> queue,
              unchanged_paths |-> unchanged \cup {source}]
        ELSE [exc |-> "none", work_queue |-> Append(queue, rename_item),
              unchanged_paths |-> unchanged]

\* RenamingPlan.__len__
PlanLen == Len(work_queue)

\* a direct pass that swallows an OSError without recording the item
direct_iteration_drops_error(r, res, rq) ==
    CASE r.exc = "DestinationPathExists" ->
           [result |-> res, resolver_queue |-> Append(rq, r.item)]
      [] r.exc = "OSError" ->
           [result |-> res, resolver_queue |-> rq]
      [] r.exc = "none" ->
           [result |-> add_success(res, r.item), resolver_queue |-> rq]
      [] OTHER ->
           [result |-> res, resolver_queue |-> rq]

\* execute(), direct pass: what one iteration does with do_rename's outcome
\* (an exception other than the two it catches is recorded nowhere)
direct_iteration(r, res, rq) ==
    CASE r.exc = "DestinationPathExists" ->
           [result |-> res, resolver_queue |-> Append(rq, r.item)]
      [] r.exc = "OSError" ->
           [result |-> add_error(res, r.item), resolver_queue |-> rq]
      [] r.exc = "none" ->
           [result |-> add_success(res, r.item), resolver_queue |-> rq]
      [] OTHER ->
           [result |-> res, resolver_queue |-> rq]

\* a resolution pass that puts a relocated item back at the head of the queue
resolve_iteration_requeues_in_front(r, res, rq) ==
    CASE r.exc = "DestinationPathExists" ->
           [result |-> add_conflict(res, r.item), resolver_queue |-> rq]
      [] r.exc = "FinalRenameRequired" ->
           [result |-> res, resolver_queue |-> <<r.item>> \o rq]
      [] r.exc = "OSError" ->
           [result |-> add_error(res, r.item), resolver_queue |-> rq]
      [] r.exc = "none" ->
           [result |-> add_success(res, r.item), resolver_queue |-> rq]
      [] OTHER ->
           [result |-> res, resolver_queue |-> rq]

\* a resolution pass that tries a still blocked item again and again
resolve_iteration_retries(r, res, rq) ==
    CASE r.exc \in {"DestinationPathExists", "FinalRenameRequired"} ->
           [result |-> res, resolver_queue |-> Append(rq, r.item)]
      [] r.exc = "OSError" ->
           [result |-> add_error(res, r.item), resolver_queue |-> rq]
      [] r.exc = "none" ->
           [result |-> add_success(res, r.item), resolver_queue |-> rq]
      [] OTHER ->
           [result |-> res, resolver_queue |-> rq]

\* execute(), resolution pass: one iteration with rename_conflicting's outcome
resolve_iteration(r, res, rq) ==
    CASE r.exc = "DestinationPathExists" ->
           [result |-> add_conflict(res, r.item), resolver_queue |-> rq]
      [] r.exc = "FinalRenameRequired" ->
           [result |-> res, resolver_queue |-> Append(rq, r.item)]
      [] r.exc = "OSError" ->
           [result |-> add_error(res, r.item), resolver_queue |-> rq]
      [] r.exc = "none" ->
           [result |-> add_success(res, r.item), resolver_queue |-> rq]
      [] OTHER ->
           [result |-> res, resolver_queue |-> rq]

(* ------------------------------ actions -------------------------------- *)

(* ---------------------- audio_metadata.py: bounds ---------------------- *)

\* tracks a Medium built by add_track holds at most
MaxTracks == 2
\* tracks of the media that are already complete when the model starts
BigTotal == 11

(* ---------------------- audio_metadata.py: strings --------------------- *)

\* A string is the sequence of its code points; "A1" is <<65, 49>>.

\* the value of an optional number (track_number, total_tracks) that is not
\* set; the numbers the tags can hold are not negative (the tag pattern of
\* line 189 admits digits only)
None == -1

\* Body of value: the value is named once and used many times, as a local
\* variable of the code is
With(value, Body(_)) == Body(value)

\* \d of the regular expressions (ASCII names)
IsDigit(c) == c \in 48..57

\* \s of the regular expressions
IsSpace(c) == c \in {9, 10, 11, 12, 13, 32}

\* int(text, 10) of a string of digits
RECURSIVE ParseInt(_)
ParseInt(s) ==
    IF s = <<>> THEN 0
    ELSE ParseInt(SubSeq(s, 1, Len(s) - 1)) * 10 + (s[Len(s)] - 48)

\* '%d' % n for n >= 0
RECURSIVE FormatD(_)
FormatD(n) ==
    IF n < 10 THEN <<48 + n>> ELSE FormatD(n \div 10) \o <<48 + (n % 10)>>

\* '%02d' % n for n >= 0
Format02d(n) == IF n < 10 THEN <<48>> \o FormatD(n) ELSE FormatD(n)

\* the end of the longest run from position `from` on of digits (\d*), or
\* of characters that are no digits ([^\d]*); from - 1 if the run is empty
RunEnd(s, from, digits) ==
    IF \E j \in from..Len(s) : ~(IsDigit(s[j]) = digits)
    THEN (CHOOSE j \in from..Len(s) :
              /\ ~(IsDigit(s[j]) = digits)
              /\ \A i \in from..(j - 1) : IsDigit(s[i]) = digits) - 1
    ELSE Len(s)

(* ------------------------- SidedTrackPosition -------------------------- *)

\* a Track without a sided position (sided_position is None)
NoPosition == [position |-> <<>>, side_name |-> <<>>, number |-> 0]

\* SidedTrackPosition(position): prx_position is \A([^\d]+)(?:(\d+))?\Z, a
\* run of non-digits followed by digits up to the end; exc is "ValueError"
\* when the pattern does not match
SidedTrackPosition(position) ==
    With(RunEnd(position, 1, FALSE), LAMBDA d :
        IF d >= 1 /\ \A i \in (d + 1)..Len(position) : IsDigit(position[i])
        THEN [exc |-> "none",
              pos |-> [position |-> position,
                       side_name |-> SubSeq(position, 1, d),
                       number |-> IF d < Len(position)
                                  THEN ParseInt(SubSeq(position, d + 1, Len(position)))
                                  ELSE 1]]
        ELSE [exc |-> "ValueError", pos |-> NoPosition])

\* the match of prx_filename_with_medium, \A[cdm]\d+([^t\d\s]\S*?)\.\s :
\* <<>> if there is none, else the group
MatchWithMedium(file_name) ==
    With(Len(file_name), LAMBDA n :
    With(RunEnd(file_name, 2, TRUE), LAMBDA i :
    With({j \in (i + 1)..(n - 2) :
              /\ \A k \in (i + 1)..j : ~IsSpace(file_name[k])
              /\ file_name[j + 1] = 46
              /\ IsSpace(file_name[j + 2])}, LAMBDA ends :
        IF /\ n >= 3
           /\ file_name[1] \in {99, 100, 109}
           /\ i >= 2
           /\ i + 1 <= n
           /\ file_name[i + 1] # 116
           /\ ~IsDigit(file_name[i + 1])
           /\ ends # {}
        THEN SubSeq(file_name, i + 1, CHOOSE j \in ends : \A k \in ends : j <= k)
        ELSE <<>>)))

\* the match of prx_filename, \A([^\d\s]+\d*)\.\s : <<>> or the group;
\* the name part is as long as a match allows
MatchPlain(file_name) ==
    With(Len(file_name), LAMBDA n :
    With({a \in 1..n :
              /\ \A k \in 1..a : ~IsDigit(file_name[k]) /\ ~IsSpace(file_name[k])
              /\ With(RunEnd(file_name, a + 1, TRUE), LAMBDA b :
                      /\ b + 2 <= n
                      /\ file_name[b + 1] = 46
                      /\ IsSpace(file_name[b + 2]))}, LAMBDA fits :
        IF fits # {}
        THEN SubSeq(file_name, 1,
                    RunEnd(file_name,
                           (CHOOSE a \in fits : \A k \in fits : k <= a) + 1,
                           TRUE))
        ELSE <<>>))

\* SidedTrackPosition.from_file_name
from_file_name(file_name) ==
    With(MatchWithMedium(file_name), LAMBDA with_medium :
        IF with_medium # <<>> THEN SidedTrackPosition(with_medium)
        ELSE With(MatchPlain(file_name), LAMBDA plain :
                 IF plain # <<>> THEN SidedTrackPosition(plain)
                 ELSE [exc |-> "ValueError", pos |-> NoPosition]))

(* -------------------------------- Track -------------------------------- *)

\* Track.reset_sided_position: the position read from the file name, None
\* when from_file_name raises ValueError
reset_sided_position(track) ==
    [track EXCEPT !.sided_position = from_file_name(track.file_name).pos]

\* Track(file_path, length, **tags): the tags are held as parsed by
\* __set_tags (track_number and total_tracks are None when not set); ARTIST
\* and DATE are the same for every track
Track(title, file_name, length, ALBUM, ALBUMARTIST, medium_number, track_number, total_tracks) ==
    reset_sided_position(
        [TITLE |-> title, file_name |-> file_name, length |-> length,
         ALBUM |-> ALBUM, ALBUMARTIST |-> ALBUMARTIST,
         medium_number |-> medium_number, track_number |-> track_number,
         total_tracks |-> total_tracks, sided_position |-> NoPosition])

\* Track.__str__, which SortableHashableMixin compares and hashes: the
\* medium and track number prefix is left out when there is no track number
TrackStr(track) ==
    <<IF track.track_number = None THEN None ELSE track.medium_number,
      track.track_number, track.TITLE, track.ALBUMARTIST, track.ALBUM>>

(* ----------------------- MediumSide and BothSides ---------------------- *)

MediumSide(name, maximum_track_number, offset) ==
    [name |-> name,
     maximum_track_number |-> maximum_track_number,
     number_of_tracks |-> maximum_track_number - offset,
     track_number_offset |-> offset]

\* MediumSide.allowed_track_numbers, a list in ascending order
allowed_track_numbers(side) ==
    [i \in 1..(side.maximum_track_number - side.track_number_offset)
        |-> side.track_number_offset + i]

\* a get_sided_position that numbers the only track of a side as well
get_sided_position_always_numbered(side, track_number) ==
    IF track_number - side.track_number_offset < 1
    THEN [exc |-> "TrackNumberBelowMinimum", pos |-> NoPosition]
    ELSE IF track_number - side.track_number_offset > side.number_of_tracks
    THEN [exc |-> "TrackNumberAboveMaximum", pos |-> NoPosition]
    ELSE SidedTrackPosition(
             side.name \o FormatD(track_number - side.track_number_offset))

\* MediumSide.get_sided_position
get_sided_position(side, track_number) ==
    LET sided_track_number == track_number - side.track_number_offset
    IN  IF sided_track_number < 1
        THEN [exc |-> "TrackNumberBelowMinimum", pos |-> NoPosition]
        ELSE IF sided_track_number > side.number_of_tracks
        THEN [exc |-> "TrackNumberAboveMaximum", pos |-> NoPosition]
        ELSE IF side.number_of_tracks = 1
        THEN SidedTrackPosition(side.name)
        ELSE IF side.number_of_tracks < 10
        THEN SidedTrackPosition(side.name \o FormatD(sided_track_number))
        ELSE SidedTrackPosition(side.name \o Format02d(sided_track_number))

\* Medium.sides before any set_sides succeeded (None)
NoSides == <<>>

\* a BothSides that takes any first_side_tracks
BothSides_unchecked(first_side_name, second_side_name, total_tracks, first_side_tracks) ==
    [exc |-> "none",
     sides |-> <<MediumSide(first_side_name, first_side_tracks, 0),
                 MediumSide(second_side_name, total_tracks,
                            first_side_tracks)>>]

\* a BothSides whose second side does not start after the first
BothSides_overlapping(first_side_name, second_side_name, total_tracks, first_side_tracks) ==
    IF first_side_tracks < 0 \/ total_tracks < first_side_tracks
    THEN [exc |-> "ValueError", sides |-> NoSides]
    ELSE [exc |-> "none",
          sides |-> <<MediumSide(first_side_name, first_side_tracks, 0),
                      MediumSide(second_side_name, total_tracks, 0)>>]

\* BothSides(first_side_name, second_side_name, total_tracks,
\* first_side_tracks); sides[1] and sides[2] are self[0] and self[1], and
\* BothSides.total_tracks is the second side's maximum_track_number
BothSides(first_side_name, second_side_name, total_tracks, first_side_tracks) ==
    IF first_side_tracks < 0
    THEN [exc |-> "ValueError", sides |-> NoSides]
    ELSE IF total_tracks < first_side_tracks
    THEN [exc |-> "ValueError", sides |-> NoSides]
    ELSE [exc |-> "none",
          sides |-> <<MediumSide(first_side_name, first_side_tracks, 0),
                      MediumSide(second_side_name, total_tracks,
                                 first_side_tracks)>>]

(* -------------------------------- Medium ------------------------------- *)

\* Medium.errors: the categories that are absent from the dict are empty
\* here (a category is only ever stored with a non-empty value); aliased
\* tells that errors[kw_ignored_tracks] is the set __duplicate_tracks itself
NoErrors ==
    [ignored_tracks |-> {}, missing_total |-> 0, surplus_total |-> 0,
     missing_track_numbers |-> {}, aliased |-> FALSE]

\* `if self.errors`: the dict holds a category
HasErrors(errors) ==
    \/ errors.ignored_tracks # {}
    \/ errors.missing_total # 0
    \/ errors.surplus_total # 0
    \/ errors.missing_track_numbers # {}

\* Medium(album, albumartist, medium_number, declared_total_tracks); the
\* tracks are named by their place in the sequence of Track objects
Medium(album, albumartist, medium_number, declared_total_tracks) ==
    [album |-> album, albumartist |-> albumartist,
     medium_number |-> medium_number,
     declared_total_tracks |-> declared_total_tracks,
     all_tracks |-> {}, tracks_map |-> <<>>, errors |-> NoErrors,
     sides |-> NoSides, duplicate_tracks |-> {}]

\* Medium.counted_tracks
counted_tracks(m) == Cardinality(m.all_tracks)

SetMax(S) == CHOOSE x \in S : \A y \in S : y <= x

\* Medium.effective_total_tracks: max() of no track raises ValueError; max()
\* of one track is its number, None included; max() of several tracks of
\* which one has no number raises the TypeError that is caught
effective_total_tracks(m, ts) ==
    LET numbers == {ts[i].track_number : i \in m.all_tracks} IN
    IF m.declared_total_tracks # None /\ m.declared_total_tracks # 0
    THEN [exc |-> "none", value |-> m.declared_total_tracks]
    ELSE IF m.all_tracks = {}
    THEN [exc |-> "ValueError", value |-> None]
    ELSE IF None \in numbers
    THEN [exc |-> "none", value |-> counted_tracks(m)]
    ELSE [exc |-> "none", value |-> SetMax(numbers)]

\* an add_track that lets the track added last have the track number
add_track_last_wins(m, ts, track) ==
    IF \/ \E i \in m.all_tracks : TrackStr(ts[i]) = TrackStr(track)
       \/ track.ALBUM # m.album
       \/ track.ALBUMARTIST # m.albumartist
       \/ track.medium_number # m.medium_number
       \/ track.total_tracks # m.declared_total_tracks
    THEN [exc |-> "ValueError", medium |-> m, tracks |-> ts]
    ELSE [exc |-> "none",
          tracks |-> Append(ts, track),
          medium |->
              [m EXCEPT
                 !.all_tracks = @ \cup {Len(ts) + 1},
                 !.tracks_map =
                     [n \in DOMAIN @ \cup {track.track_number} |->
                         IF n = track.track_number THEN Len(ts) + 1 ELSE @[n]],
                 !.duplicate_tracks =
                     IF track.track_number \in DOMAIN m.tracks_map
                     THEN @ \cup {m.tracks_map[track.track_number]} ELSE @]]

\* an add_track that does not compare the total of the track
add_track_any_total(m, ts, track) ==
    IF \/ \E i \in m.all_tracks : TrackStr(ts[i]) = TrackStr(track)
       \/ track.ALBUM # m.album
       \/ track.ALBUMARTIST # m.albumartist
       \/ track.medium_number # m.medium_number
    THEN [exc |-> "ValueError", medium |-> m, tracks |-> ts]
    ELSE [exc |-> "none",
          tracks |-> Append(ts, track),
          medium |->
              [m EXCEPT
                 !.all_tracks = @ \cup {Len(ts) + 1},
                 !.tracks_map =
                     IF track.track_number \in DOMAIN m.tracks_map THEN @
                     ELSE @ @@ (track.track_number :> Len(ts) + 1),
                 !.duplicate_tracks =
                     IF track.track_number \in DOMAIN m.tracks_map
                     THEN @ \cup {Len(ts) + 1} ELSE @]]

\* Medium.add_track(track); a track that is accepted becomes the next
\* element of the sequence of Track objects
add_track(m, ts, track) ==
    IF \/ \E i \in m.all_tracks : TrackStr(ts[i]) = TrackStr(track)
       \/ track.ALBUM # m.album
       \/ track.ALBUMARTIST # m.albumartist
       \/ track.medium_number # m.medium_number
       \/ track.total_tracks # m.declared_total_tracks
    THEN [exc |-> "ValueError", medium |-> m, tracks |-> ts]
    ELSE LET i == Len(ts) + 1
             duplicate == track.track_number \in DOMAIN m.tracks_map
         IN  [exc |-> "none",
              tracks |-> Append(ts, track),
              medium |->
                  [m EXCEPT
                     !.all_tracks = @ \cup {i},
                     !.tracks_map =
                         IF duplicate THEN @ ELSE @ @@ (track.track_number :> i),
                     !.duplicate_tracks = IF duplicate THEN @ \cup {i} ELSE @,
                     \* the set the errors dict holds is the same object
                     !.errors.ignored_tracks =
                         IF duplicate /\ m.errors.aliased THEN @ \cup {i} ELSE @]]

\* a determine_errors that does not report surplus tracks
determine_errors_without_surplus(m, ts) ==
    With(effective_total_tracks(m, ts), LAMBDA total :
    With(total.value - counted_tracks(m), LAMBDA missing_tracks_count :
    With({n \in DOMAIN m.tracks_map : n \notin 1..total.value},
         LAMBDA ignored_track_numbers :
    With({m.tracks_map[n] : n \in ignored_track_numbers}, LAMBDA ignored :
        IF total.exc # "none"
        THEN [exc |-> total.exc,
              medium |-> [m EXCEPT !.errors =
                             [NoErrors EXCEPT
                                 !.ignored_tracks = m.duplicate_tracks,
                                 !.aliased = m.duplicate_tracks # {}]]]
        ELSE [exc |-> "none",
              medium |->
                  [m EXCEPT
                     !.errors =
                         [ignored_tracks |-> m.duplicate_tracks \cup ignored,
                          missing_total |-> IF missing_tracks_count > 0
                                            THEN missing_tracks_count ELSE 0,
                          surplus_total |-> 0,
                          missing_track_numbers |->
                              (1..total.value)
                              \ (DOMAIN m.tracks_map \ ignored_track_numbers),
                          aliased |-> m.duplicate_tracks # {}],
                     !.duplicate_tracks =
                         IF m.duplicate_tracks # {} THEN @ \cup ignored ELSE @,
                     !.tracks_map =
                         [n \in DOMAIN m.tracks_map \ ignored_track_numbers
                             |-> m.tracks_map[n]]]]))))

\* Medium.determine_errors: the medium with its errors dict rewritten and
\* the tracks with unexpected numbers taken out of tracks_map; the property
\* effective_total_tracks may raise, and then the dict is left empty (there
\* are no duplicates on a medium without tracks)
determine_errors(m, ts) ==
    With(effective_total_tracks(m, ts), LAMBDA total :
    With(total.value - counted_tracks(m), LAMBDA missing_tracks_count :
    With({n \in DOMAIN m.tracks_map : n \notin 1..total.value},
         LAMBDA ignored_track_numbers :
    With({m.tracks_map[n] : n \in ignored_track_numbers}, LAMBDA ignored :
        IF total.exc # "none"
        THEN [exc |-> total.exc,
              medium |-> [m EXCEPT !.errors =
                             [NoErrors EXCEPT
                                 !.ignored_tracks = m.duplicate_tracks,
                                 !.aliased = m.duplicate_tracks # {}]]]
        ELSE [exc |-> "none",
              medium |->
                  [m EXCEPT
                     !.errors =
                         [ignored_tracks |-> m.duplicate_tracks \cup ignored,
                          missing_total |-> IF missing_tracks_count > 0
                                            THEN missing_tracks_count ELSE 0,
                          surplus_total |-> IF missing_tracks_count < 0
                                            THEN -missing_tracks_count ELSE 0,
                          missing_track_numbers |->
                              (1..total.value)
                              \ (DOMAIN m.tracks_map \ ignored_track_numbers),
                          aliased |-> m.duplicate_tracks # {}],
                     !.duplicate_tracks =
                         IF m.duplicate_tracks # {} THEN @ \cup ignored ELSE @,
                     !.tracks_map =
                         [n \in DOMAIN m.tracks_map \ ignored_track_numbers
                             |-> m.tracks_map[n]]]]))))

\* sorted(...) of a set of numbers
RECURSIVE Sorted(_)
Sorted(S) ==
    IF S = {} THEN <<>>
    ELSE LET least == CHOOSE x \in S : \A y \in S : x <= y
         IN  <<least>> \o Sorted(S \ {least})

\* Medium.successor_side_name: the last code point incremented; '' has no
\* last code point
successor_side_name(side_name) ==
    SubSeq(side_name, 1, Len(side_name) - 1) \o <<side_name[Len(side_name)] + 1>>

\* a get_side_names whose default names advance by one letter per medium
get_side_names_one_letter_on(m, preset_side_names) ==
    IF Len(preset_side_names) > 2
    THEN [exc |-> "ValueError", names |-> <<>>]
    ELSE IF Len(preset_side_names) = 0
    THEN [exc |-> "none",
          names |-> <<<<64 + m.medium_number>>, <<64 + m.medium_number + 1>>>>]
    ELSE IF Len(preset_side_names) = 2
    THEN [exc |-> "none", names |-> preset_side_names]
    ELSE IF preset_side_names[1] = <<>>
    THEN [exc |-> "IndexError", names |-> <<>>]
    ELSE [exc |-> "none",
          names |-> <<preset_side_names[1],
                      successor_side_name(preset_side_names[1])>>]

\* Medium.get_side_names(*preset_side_names)
get_side_names(m, preset_side_names) ==
    IF Len(preset_side_names) > 2
    THEN [exc |-> "ValueError", names |-> <<>>]
    ELSE IF Len(preset_side_names) = 0
    THEN [exc |-> "none",
          names |-> <<<<63 + 2 * m.medium_number>>,
                      <<63 + 2 * m.medium_number + 1>>>>]
    ELSE IF Len(preset_side_names) = 2
    THEN [exc |-> "none", names |-> preset_side_names]
    ELSE IF preset_side_names[1] = <<>>
    THEN [exc |-> "IndexError", names |-> <<>>]
    ELSE [exc |-> "none",
          names |-> <<preset_side_names[1],
                      successor_side_name(preset_side_names[1])>>]

\* Medium.reset_sided_positions: every member's position is read from its
\* file name again
reset_sided_positions(m, ts) ==
    [i \in 1..Len(ts) |->
        IF i \in m.all_tracks THEN reset_sided_position(ts[i]) ELSE ts[i]]

\* first_side_tracks while it is None
Unset == [set |-> FALSE, value |-> 0]

\* the loop of get_declared_sides over sorted(tracks_map.items()), lines
\* 745-755; `not first_side_tracks` holds of None and of 0
RECURSIVE scan_sides(_, _, _, _, _)
scan_sides(m, ts, numbers, detected_sides, first_side_tracks) ==
    IF numbers = <<>>
    THEN [detected_sides |-> detected_sides,
          first_side_tracks |-> first_side_tracks]
    ELSE With(Head(numbers), LAMBDA track_number :
         With(ts[m.tracks_map[track_number]].sided_position, LAMBDA position :
         With(IF \E i \in 1..Len(detected_sides) :
                     detected_sides[i] = position.side_name
              THEN detected_sides
              ELSE Append(detected_sides, position.side_name), LAMBDA detected :
             IF position = NoPosition
             THEN scan_sides(m, ts, Tail(numbers), detected_sides,
                             first_side_tracks)
             ELSE scan_sides(m, ts, Tail(numbers), detected,
                     IF /\ Len(detected) = 2
                        /\ (~first_side_tracks.set \/ first_side_tracks.value = 0)
                     THEN [set |-> TRUE,
                           value |-> track_number - position.number]
                     ELSE first_side_tracks))))

\* what a side-determination call hands back when it raises
Raised(exc, m, ts) ==
    [exc |-> exc, medium |-> m, tracks |-> ts, sides |-> NoSides]

\* a declared_both_sides that keeps the first two of too many side names
\* and names the sides in alphabetical order
declared_both_sides_truncating(m, ts, scan) ==
    With(SubSeq(scan.detected_sides, 1, 2), LAMBDA kept :
    With(get_side_names(m, IF Len(kept) = 2 /\ kept[2][1] < kept[1][1]
                           THEN <<kept[2], kept[1]>> ELSE kept), LAMBDA names :
        IF scan.detected_sides = <<>> THEN Raised("ValueError", m, ts)
        ELSE IF names.exc # "none" THEN Raised(names.exc, m, ts)
        ELSE With(effective_total_tracks(m, ts).value, LAMBDA total :
             With(BothSides(names.names[1], names.names[2], total,
                            IF scan.first_side_tracks.set
                            THEN scan.first_side_tracks.value
                            ELSE total), LAMBDA both :
                 IF both.exc # "none" THEN Raised(both.exc, m, ts)
                 ELSE [exc |-> "none", medium |-> m, tracks |-> ts,
                       sides |-> both.sides]))))

\* lines 757-771 of get_declared_sides: the BothSides of what the loop found
declared_both_sides(m, ts, scan) ==
    With(get_side_names(m, scan.detected_sides), LAMBDA names :
        IF scan.detected_sides = <<>> THEN Raised("ValueError", m, ts)
        ELSE IF names.exc # "none" THEN Raised(names.exc, m, ts)
        ELSE With(effective_total_tracks(m, ts).value, LAMBDA total :
             With(BothSides(names.names[1], names.names[2], total,
                            IF scan.first_side_tracks.set
                            THEN scan.first_side_tracks.value
                            ELSE total), LAMBDA both :
                 IF both.exc # "none" THEN Raised(both.exc, m, ts)
                 ELSE [exc |-> "none", medium |-> m, tracks |-> ts,
                       sides |-> both.sides])))

\* a get_declared_sides that reads the positions the tracks have and
\* resets them afterwards
get_declared_sides_resets_late(m, ts) ==
    With(determine_errors(m, ts), LAMBDA checked :
        IF checked.exc # "none"
        THEN Raised(checked.exc, checked.medium, reset_sided_positions(m, ts))
        ELSE [declared_both_sides(
                  checked.medium, ts,
                  scan_sides(checked.medium, ts,
                             Sorted(DOMAIN checked.medium.tracks_map),
                             <<>>, Unset))
              EXCEPT !.tracks = reset_sided_positions(m, ts)])

\* Medium.get_declared_sides(): the BothSides it returns, and the medium
\* and the tracks as the call leaves them
get_declared_sides(m, ts) ==
    With(reset_sided_positions(m, ts), LAMBDA ts1 :
    With(determine_errors(m, ts1), LAMBDA checked :
        IF checked.exc # "none" THEN Raised(checked.exc, checked.medium, ts1)
        ELSE declared_both_sides(
                 checked.medium, ts1,
                 scan_sides(checked.medium, ts1,
                            Sorted(DOMAIN checked.medium.tracks_map),
                            <<>>, Unset))))

\* sum(track.length for track in self.tracks_map.values())
RECURSIVE total_length_of(_, _, _)
total_length_of(m, ts, numbers) ==
    IF numbers = {} THEN 0
    ELSE LET n == CHOOSE n \in numbers : TRUE
         IN  ts[m.tracks_map[n]].length + total_length_of(m, ts, numbers \ {n})

Abs(x) == IF x < 0 THEN -x ELSE x

\* a loop of guess_sides that walks on over a track that does not improve
\* the balance, to the last track that does
RECURSIVE guess_loop_walks_on(_, _, _, _, _, _, _)
guess_loop_walks_on(m, ts, numbers, total_time, accumulated_time, last_track_number, last_delta) ==
    IF numbers = <<>>
    THEN [exc |-> IF ts = <<>> THEN "ValueError" ELSE "none",
          first_side_tracks |-> last_track_number]
    ELSE With(accumulated_time + ts[m.tracks_map[Head(numbers)]].length,
              LAMBDA accumulated :
         With(Abs(total_time - 2 * accumulated), LAMBDA current_delta :
             IF current_delta < last_delta
             THEN guess_loop_walks_on(m, ts, Tail(numbers), total_time,
                                      accumulated, Head(numbers),
                                      current_delta)
             ELSE guess_loop_walks_on(m, ts, Tail(numbers), total_time,
                                      accumulated, last_track_number, last_delta)))

\* the loop of guess_sides, lines 803-814: the first-side track count it
\* breaks with, or "ValueError" when it ends without a break
RECURSIVE guess_loop(_, _, _, _, _, _, _)
guess_loop(m, ts, numbers, total_time, accumulated_time, last_track_number, last_delta) ==
    IF numbers = <<>>
    THEN [exc |-> "ValueError", first_side_tracks |-> 0]
    ELSE With(accumulated_time + ts[m.tracks_map[Head(numbers)]].length,
              LAMBDA accumulated :
         With(Abs(total_time - 2 * accumulated), LAMBDA current_delta :
             IF current_delta < last_delta
             THEN guess_loop(m, ts, Tail(numbers), total_time, accumulated,
                             Head(numbers), current_delta)
             ELSE [exc |-> "none", first_side_tracks |-> last_track_number]))

\* lines 816-822 of guess_sides: the BothSides of what the loop found
guessed_both_sides(m, ts, side_names, loop) ==
    With(get_side_names(m, side_names), LAMBDA names :
    With(effective_total_tracks(m, ts), LAMBDA total :
        IF loop.exc # "none" THEN Raised(loop.exc, m, ts)
        ELSE IF names.exc # "none" THEN Raised(names.exc, m, ts)
        ELSE IF total.exc # "none" THEN Raised(total.exc, m, ts)
        ELSE With(BothSides(names.names[1], names.names[2], total.value,
                            loop.first_side_tracks), LAMBDA both :
                 IF both.exc # "none" THEN Raised(both.exc, m, ts)
                 ELSE [exc |-> "none", medium |-> m, tracks |-> ts,
                       sides |-> both.sides])))

\* Medium.guess_sides(*side_names); sorted() of the items raises TypeError
\* when a track without a number is in tracks_map next to another track
guess_sides(m, ts, side_names) ==
    With(total_length_of(m, ts, DOMAIN m.tracks_map), LAMBDA total_time :
        IF None \in DOMAIN m.tracks_map /\ Cardinality(DOMAIN m.tracks_map) > 1
        THEN Raised("TypeError", m, ts)
        ELSE guessed_both_sides(
                 m, ts, side_names,
                 guess_loop(m, ts, Sorted(DOMAIN m.tracks_map), total_time,
                            0, 0, total_time)))

\* the loops of apply_sided_positioning over the track numbers of one side,
\* lines 672-675; a position that cannot be built ends them
RECURSIVE apply_side(_, _, _, _)
apply_side(m, ts, current_side, numbers) ==
    IF numbers = <<>> THEN [exc |-> "none", tracks |-> ts]
    ELSE IF Head(numbers) \notin DOMAIN m.tracks_map
    THEN [exc |-> "KeyError", tracks |-> ts]
    ELSE With(get_sided_position(current_side, Head(numbers)), LAMBDA made :
             IF made.exc # "none"
             THEN [exc |-> made.exc, tracks |-> ts]
             ELSE apply_side(m,
                             [ts EXCEPT ![m.tracks_map[Head(numbers)]]
                                            .sided_position = made.pos],
                             current_side, Tail(numbers)))

\* Medium.apply_sided_positioning
apply_sided_positioning(m, ts) ==
    With(apply_side(m, ts, m.sides[1], allowed_track_numbers(m.sides[1])),
         LAMBDA first :
        IF first.exc # "none" THEN first
        ELSE apply_side(m, first.tracks, m.sides[2],
                        allowed_track_numbers(m.sides[2])))

\* set_sides(first_side_tracks=None)
NoBoundary == [given |-> FALSE, value |-> 0]

\* set_sides(first_side_tracks=k)
Boundary(k) == [given |-> TRUE, value |-> k]

\* lines 842-850 of set_sides: the BothSides of the explicit boundary
explicit_both_sides(m, ts, side_names, first_side_tracks) ==
    With(get_side_names(m, side_names), LAMBDA names :
        IF names.exc # "none" THEN Raised(names.exc, m, ts)
        ELSE With(BothSides(names.names[1], names.names[2],
                            effective_total_tracks(m, ts).value,
                            first_side_tracks), LAMBDA both :
                 IF both.exc # "none" THEN Raised(both.exc, m, ts)
                 ELSE [exc |-> "none", medium |-> m, tracks |-> ts,
                       sides |-> both.sides]))

\* a determine_sides that guesses first and reads the file names only when
\* the guess fails
determine_sides_guess_first(m, ts, side_names, first_side_tracks) ==
    IF ~first_side_tracks.given
    THEN With(get_declared_sides(m, ts), LAMBDA declared :
         With(guess_sides(declared.medium, declared.tracks, side_names),
              LAMBDA guessed :
             IF guessed.exc = "none" THEN guessed ELSE declared))
    ELSE With(determine_errors(m, ts), LAMBDA checked :
             IF checked.exc # "none" THEN Raised(checked.exc, checked.medium, ts)
             ELSE explicit_both_sides(checked.medium, ts, side_names,
                                      first_side_tracks.value))

\* lines 835-850 of set_sides: the BothSides to apply, from the file names,
\* else guessed, or from the explicit boundary
determine_sides(m, ts, side_names, first_side_tracks) ==
    IF ~first_side_tracks.given
    THEN With(get_declared_sides(m, ts), LAMBDA declared :
             IF declared.exc = "ValueError"
             THEN guess_sides(declared.medium, declared.tracks, side_names)
             ELSE declared)
    ELSE With(determine_errors(m, ts), LAMBDA checked :
             IF checked.exc # "none" THEN Raised(checked.exc, checked.medium, ts)
             ELSE explicit_both_sides(checked.medium, ts, side_names,
                                      first_side_tracks.value))

\* lines 852-857 of set_sides: raise on errors, else store and apply
commit_sides(found) ==
    IF found.exc # "none"
    THEN [exc |-> found.exc, medium |-> found.medium, tracks |-> found.tracks]
    ELSE IF HasErrors(found.medium.errors)
    THEN [exc |-> "ValueError", medium |-> found.medium,
          tracks |-> found.tracks]
    ELSE With([found.medium EXCEPT !.sides = found.sides], LAMBDA m1 :
         With(apply_sided_positioning(m1, found.tracks), LAMBDA applied :
             [exc |-> applied.exc, medium |-> m1, tracks |-> applied.tracks]))

\* Medium.set_sides(*side_names, first_side_tracks): the exception it
\* raises ("none" when it returns), and the medium and the tracks as the
\* call leaves them
set_sides(m, ts, side_names, first_side_tracks) ==
    commit_sides(determine_sides(m, ts, side_names, first_side_tracks))

(* ------------------- audio_metadata.py: the callers -------------------- *)

\* the file name "01. x", which carries no side
Unsided == <<48, 49, 46, 32, 120>>

\* the file name "<side><index>. x" of a file that carries a side
SidedFileName(side, index) == <<side>> \o FormatD(index) \o <<46, 32, 120>>

\* the files a caller reads one by one, by file name, track number and
\* length in seconds: "01. x" without a number and numbered 1, 2 and 3,
\* and "A1. x" as track 1
Files ==
    {[file_name |-> Unsided, track_number |-> n, length |-> 1] :
         n \in {None} \cup 1..3}
    \cup {[file_name |-> SidedFileName(65, 1), track_number |-> 1, length |-> 1]}

\* the lengths in seconds of the tracks of a directory that is read whole
Lengths == 0..1

\* the totals of the TRACKNUMBER tags ("n/0", "n/2"), and None without one
Totals == {None, 0, 2}

\* the side names a caller passes to set_sides and guess_sides: none, or
\* "A1" and "B"
SideNameArgs == {<<>>, <<<<65, 49>>, <<66>>>>}

\* the first_side_tracks a caller passes to set_sides for a medium of count
\* tracks: none, or a number next to either end
Boundaries(count) ==
    {NoBoundary}
    \cup {Boundary(k) : k \in {-1, 0, 1, count, count + 1}}

\* no call has been made yet
NoCall == [op |-> "none", exc |-> "none"]

\* the medium read from a directory whose files, in the order of their
\* names, are numbered 1.. by their tags, without a total, and have the
\* same length each
RECURSIVE read_directory(_, _)
read_directory(file_names, length) ==
    IF file_names = <<>>
    THEN [exc |-> "none", medium |-> Medium("album", "artist", 1, None),
          tracks |-> <<>>]
    ELSE With(read_directory(SubSeq(file_names, 1, Len(file_names) - 1),
                             length), LAMBDA smaller :
             add_track(smaller.medium, smaller.tracks,
                       Track(Len(file_names), file_names[Len(file_names)],
                             length, "album", "artist", 1, Len(file_names),
                             None)))

\* the file names of n files that carry no side
UnsidedNames(n) == [i \in 1..n |-> Unsided]

\* the file names "A1. x".."Ak. x", "B1. x".. of n files
SidedNames(n, k) ==
    [i \in 1..n |-> IF i <= k THEN SidedFileName(65, i)
                    ELSE SidedFileName(66, i - k)]

\* directories of files that carry sides: A.. then B.., or A alone; the
\* sides A, B and C; the second side counted down; the second side
\* starting at 3; side B before side A
SidedDirectories ==
    {SidedNames(n, k) : n \in {3, BigTotal - 1}, k \in {1, 4}}
    \cup {<<SidedFileName(65, 1), SidedFileName(66, 1), SidedFileName(67, 1)>>,
          <<SidedFileName(65, 1), SidedFileName(66, 2), SidedFileName(66, 1)>>,
          <<SidedFileName(65, 1), SidedFileName(66, 3)>>,
          <<SidedFileName(66, 1), SidedFileName(65, 1)>>}

\* the tracks a caller may hand to add_track: a new file whose tags agree
\* with the medium, a new file of which one tag differs, or the Track that
\* was added last
Agreeing ==
    {Track(Len(tracks) + 1, file.file_name, file.length, medium.album,
           medium.albumartist, medium.medium_number, file.track_number,
           medium.declared_total_tracks) : file \in Files}

Disagreeing ==
    {Track(Len(tracks) + 1, Unsided, 1, "other album", medium.albumartist,
           medium.medium_number, 1, medium.declared_total_tracks),
     Track(Len(tracks) + 1, Unsided, 1, medium.album, "other artist",
           medium.medium_number, 1, medium.declared_total_tracks),
     Track(Len(tracks) + 1, Unsided, 1, medium.album, medium.albumartist,
           medium.medium_number + 1, 1, medium.declared_total_tracks),
     Track(Len(tracks) + 1, Unsided, 1, medium.album, medium.albumartist,
           medium.medium_number, 1,
           IF medium.declared_total_tracks = 2 THEN None ELSE 2)}

Members == {tracks[i] : i \in {Len(tracks)} \ {0}}

\* the preceding call was not get_declared_sides
NotDeclared == [exc |-> "not called", sides |-> NoSides]

\* the audio_metadata variables where no Medium is in use
MediumIdle ==
    /\ tracks = <<>>
    /\ medium = Medium("album", "artist", 1, None)
    /\ call = NoCall
    /\ declared_before = NotDeclared
(* --------------------- mbdata.py: TranslatorChain ---------------------- *)

\* translators a chain of the model holds at most
MaxChain == 3

\* characters of the texts that are translated at most
MaxText == 3

\* Translator(original, replacement)
Translator(original, replacement) ==
    [original |-> original, replacement |-> replacement]

\* str.replace(original, replacement): every occurrence of original, found
\* from the left without overlaps, becomes replacement; an empty original
\* occurs before every character and at the end
RECURSIVE str_replace(_, _, _)
str_replace(text, original, replacement) ==
    IF original = <<>>
    THEN IF text = <<>> THEN replacement
         ELSE replacement \o <<Head(text)>>
                  \o str_replace(Tail(text), original, replacement)
    ELSE IF Len(text) < Len(original) THEN text
    ELSE IF SubSeq(text, 1, Len(original)) = original
    THEN replacement
             \o str_replace(SubSeq(text, Len(original) + 1, Len(text)),
                            original, replacement)
    ELSE <<Head(text)>> \o str_replace(Tail(text), original, replacement)

\* Translator.translate(text)
translate(translator, text) ==
    str_replace(text, translator.original, translator.replacement)

\* TranslatorChain.append(single_translator)
append(chain, single_translator) == Append(chain, single_translator)

\* the loop of TranslatorChain.translate: the result so far is handed
\* from each translator to the next one of the list
RECURSIVE translate_loop(_, _)
translate_loop(chain, result_so_far) ==
    IF chain = <<>> THEN result_so_far
    ELSE translate_loop(Tail(chain), translate(Head(chain), result_so_far))

\* a loop that hands the text from the last translator to the first
RECURSIVE translate_loop_backwards(_, _)
translate_loop_backwards(chain, text) ==
    IF chain = <<>> THEN text
    ELSE translate(Head(chain), translate_loop_backwards(Tail(chain), text))

\* a translate that applies the translators in the reverse order
chain_translate_backwards(chain, text) == translate_loop_backwards(chain, text)

\* TranslatorChain.translate(text)
chain_translate(chain, text) == translate_loop(chain, text)

\* the translators of the callers: "a" to "b", "b" to "a", "ab" to "a", "a"
\* to "" and "" to "b"
Translators ==
    {Translator(<<97>>, <<98>>), Translator(<<98>>, <<97>>),
     Translator(<<97, 98>>, <<97>>), Translator(<<97>>, <<>>),
     Translator(<<>>, <<98>>)}

\* the texts of the callers: the strings of "a" and "b"
Texts == UNION {[1..n -> {97, 98}] : n \in 0..MaxText}

\* no translate call has been made yet
NotTranslated == [called |-> FALSE, text |-> <<>>, result |-> <<>>]

\* the mbdata variables where no chain is in use
ChainIdle == translators = <<>> /\ translated = NotTranslated
(* ------------------- safer_mass_rename.py: item calls ------------------ *)

\* RenameItem objects a caller builds
MaxItems == 2

\* the variables of the rename engine other than the directory
plan_vars ==
    <<work_queue, unchanged_paths, pc, overwrite_allowed, resolver_queue,
      result, last_add, prev_queue, prev_unchanged, clean_adds, seen_sources,
      seen_targets, n_execs, n_fails, fs0, plan0, unchanged0, exec_fails,
      visits, last_exc, last_op, repeated>>

\* no RenameItem method has been called
NoItemCall == [name |-> "none", index |-> 0, exc |-> "none"]

\* no RenameItem has been built
ItemIdle == items = <<>> /\ item_call = NoItemCall

(* ------------------ audio_metadata.py: error categories ---------------- *)

\* tracks a Medium holds when its errors are determined again and again
MaxMembers == 3

(* --------------------- audio_metadata.py: side names ------------------- *)

\* medium numbers of the media whose side names are asked for
MaxMedium == 5
\* characters of a side name a caller presets
MaxName == 2

\* the side names a caller may preset: of "1", "A", "B" and "Z"
PresetNames == UNION {[1..n -> {49, 65, 66, 90}] : n \in 0..MaxName}

\* the arguments of a get_side_names call: none, one name, two or three
\* names
PresetArgs ==
    {<<>>}
    \cup {<<name>> : name \in PresetNames}
    \cup {<<first, second>> : first \in {<<65>>, <<66, 49>>},
                              second \in {<<66>>, <<65>>}}
    \cup {<<<<65>>, <<66>>, <<67>>>>}

(* ------------------- audio_metadata.py: guessed sides ------------------ *)

\* tracks of the media whose sides are guessed
MaxGuess == 4
\* the longest track of these media, in seconds
MaxLength == 2

\* the medium of the files numbered step, 2 * step, .. by their tags,
\* without a total, of the given lengths
RECURSIVE read_lengths(_, _)
read_lengths(lengths, step) ==
    IF lengths = <<>>
    THEN [exc |-> "none", medium |-> Medium("album", "artist", 1, None),
          tracks |-> <<>>]
    ELSE With(read_lengths(SubSeq(lengths, 1, Len(lengths) - 1), step),
              LAMBDA smaller :
             add_track(smaller.medium, smaller.tracks,
                       Track(Len(lengths), Unsided, lengths[Len(lengths)],
                             "album", "artist", 1, step * Len(lengths), None)))

(* ----------- safer_mass_rename.py: a concurrent external writer -------- *)

\* files an external actor creates while the items are renamed
MaxCreated == 1

\* the content of a file the external actor creates
ExternalFile == NumPaths + 1

\* a check of the destination that lets every rename pass
check_destination_skipped(f, target, ov) == "none"

\* RenameItem.__rename_path, lines 139-146: the check of the destination
check_destination(f, target, ov) ==
    IF Exists(f, target) /\ target \notin ov
    THEN "DestinationPathExists"
    ELSE "none"

\* RenameItem.__rename_path, line 149: source.rename(target)
rename_source(f, source, target, oserr) ==
    IF oserr \/ ~Exists(f, source)
    THEN [exc |-> "OSError", fs |-> f]
    ELSE [exc |-> "none", fs |-> OsRename(f, source, target)]

\* no __rename_path call is between its check and its rename
NoRenaming ==
    [index |-> 0, source |-> NoPath, target |-> NoPath, ov |-> {},
     then |-> "none"]

\* a __rename_path call of items[index] that has passed its check; then is
\* the state the item gets when the rename succeeds
Renaming(index, source, target, ov, then) ==
    [index |-> index, source |-> source, target |-> target, ov |-> ov,
     then |-> then]

\* nothing is being renamed and no external actor has acted
RaceIdle ==
    /\ renaming = NoRenaming
    /\ interference = [created |-> 0, replaced |-> FALSE]

(* -------- audio_metadata.py: file names made from sided positions ------ *)

\* the tracks of the media whose files are renamed and read again
MaxRound == 11

\* a file name that carries the track number whatever the position is
suggested_filename_by_number(track, include_medium_number) ==
    Format02d(track.track_number) \o <<46, 32, 120>>

\* Track.prefix: "<position>. ", else "<nn>. " for a numbered track
prefix(track) ==
    IF track.sided_position # NoPosition
    THEN track.sided_position.position \o <<46, 32>>
    ELSE IF track.track_number # None /\ track.track_number # 0
    THEN Format02d(track.track_number) \o <<46, 32>>
    ELSE <<>>

\* Track.suggested_filename for a track titled "x" by the album's artist: the
\* prefix, behind "d<medium>" or "d<medium>t" on demand, and the title
suggested_filename(track, include_medium_number) ==
    (IF prefix(track) # <<>> /\ include_medium_number
     THEN <<100>> \o FormatD(track.medium_number)
              \o (IF track.sided_position # NoPosition THEN <<>> ELSE <<116>>)
              \o prefix(track)
     ELSE prefix(track)) \o <<120>>

(* ------------- audio_metadata.py: side names given by a caller --------- *)

\* the tracks of the media whose sides a caller names
MaxLabelled == 3

\* the side names a caller passes to set_sides: none, "A1" and "A", "A" and
\* "1", or "" and "B"
LabelNames ==
    {<<>>, <<<<65, 49>>, <<65>>>>, <<<<65>>, <<49>>>>, <<<<>>, <<66>>>>}

(* --------------------------- RenamingPlan calls ------------------------ *)

\* execute() catches DestinationPathExists, FinalRenameRequired and OSError;
\* any other exception of an item ends the call
Escapes(exc) == exc = "ValueError"

NoAdd == [source |-> NoPath, target |-> NoPath, exc |-> "none", state |-> "none"]

RenameInit ==
    \* the directory holds k files; names are interchangeable, so they are
    \* taken to be 1..k, and each file's content is named after its path
    /\ \E k \in 0..NumPaths :
           fs = [p \in AllPaths |-> IF p <= k THEN p ELSE NoFile]
    /\ work_queue = <<>>
    /\ unchanged_paths = {}
    /\ pc = "idle"
    /\ overwrite_allowed = {}
    /\ resolver_queue = <<>>
    /\ result = MassRenamingResult
    /\ last_add = NoAdd
    /\ prev_queue = <<>>
    /\ prev_unchanged = {}
    /\ clean_adds = TRUE
    /\ seen_sources = {}
    /\ seen_targets = {}
    /\ n_execs = 0
    /\ n_fails = 0
    /\ fs0 = fs
    /\ plan0 = <<>>
    /\ unchanged0 = {}
    /\ exec_fails = 0
    /\ visits = [p \in Paths |-> 0]
    /\ last_exc = "none"
    /\ last_op = "none"
    /\ repeated = FALSE

Init == RenameInit /\ MediumIdle /\ ChainIdle /\ ItemIdle /\ RaceIdle

\* plan.add(source, target_file_name).  The callers build a new plan for
\* each batch and execute it (update_from_musicbrainz_gui.py, line 785): the
\* add() calls come before the first execute().
Add(source, target) ==
    /\ pc = "idle"
    /\ n_execs = 0
    /\ Len(work_queue) < MaxPlan
    /\ LET r == add(work_queue, unchanged_paths, fs, source, target)
           clean == /\ clean_adds
                    /\ Exists(fs, source)
                    /\ source \notin seen_sources
                    /\ target \notin seen_targets
                    /\ source # target
       IN  /\ work_queue' = r.work_queue
           /\ unchanged_paths' = r.unchanged_paths
           /\ last_add' = [source |-> source, target |-> target, exc |-> r.exc,
                           state |-> IF r.exc = "ValueError" THEN "none"
                                     ELSE RenameItem(source, target).state]
           /\ clean_adds' = clean
           /\ seen_sources' = IF clean THEN seen_sources \cup {source} ELSE {}
           /\ seen_targets' = IF clean THEN seen_targets \cup {target} ELSE {}
    /\ prev_queue' = work_queue
    /\ prev_unchanged' = unchanged_paths
    /\ last_op' = "add"
    /\ UNCHANGED <<fs, pc, overwrite_allowed, resolver_queue, result, n_execs,
                   n_fails, fs0, plan0, unchanged0, exec_fails, visits,
                   last_exc, repeated>>
    /\ UNCHANGED <<medium_vars, chain_vars, item_vars, race_vars>>

\* plan.execute(overwrite_allowed=ov), lines 321-323
ExecuteBegin(ov) ==
    /\ pc = "idle"
    /\ n_execs < MaxExecs
    /\ pc' = "direct"
    /\ result' = MassRenamingResult
    /\ overwrite_allowed' = ov
    /\ resolver_queue' = <<>>
    /\ fs0' = fs
    /\ plan0' = work_queue
    /\ unchanged0' = unchanged_paths
    /\ exec_fails' = 0
    /\ visits' = [p \in Paths |-> 0]
    /\ last_exc' = "none"
    /\ repeated' = (last_op = "execute")
    /\ last_add' = NoAdd
    /\ prev_queue' = <<>>
    /\ prev_unchanged' = {}
    /\ clean_adds' = TRUE
    /\ seen_sources' = {}
    /\ seen_targets' = {}
    /\ UNCHANGED <<fs, work_queue, unchanged_paths, n_execs, n_fails, last_op>>
    /\ UNCHANGED <<medium_vars, chain_vars, item_vars, race_vars>>

\* one iteration of the loop over the work queue, lines 324-334
DirectStep(oserr) ==
    /\ pc = "direct"
    /\ work_queue # <<>>
    /\ oserr => n_fails < MaxFails
    /\ LET current_item == Head(work_queue)
           r == do_rename(current_item, fs, overwrite_allowed, oserr)
           next == direct_iteration(r, result, resolver_queue)
           failed == IF r.exc = "OSError" THEN 1 ELSE 0
       IN  /\ work_queue' = Tail(work_queue)
           /\ fs' = r.fs
           /\ result' = next.result
           /\ resolver_queue' = next.resolver_queue
           /\ last_exc' = r.exc
           /\ n_fails' = n_fails + failed
           /\ exec_fails' = exec_fails + failed
           /\ pc' = IF Escapes(r.exc) THEN "idle" ELSE pc
           /\ last_op' = IF Escapes(r.exc) THEN "raised" ELSE last_op
    /\ UNCHANGED <<unchanged_paths, overwrite_allowed, add_vars, n_execs, fs0,
                   plan0, unchanged0, visits, repeated>>
    /\ UNCHANGED <<medium_vars, chain_vars, item_vars, race_vars>>

\* the work queue is empty: leave the first loop, line 324
DirectDone ==
    /\ pc = "direct"
    /\ work_queue = <<>>
    /\ pc' = "resolve"
    /\ last_exc' = "none"
    /\ UNCHANGED <<fs, work_queue, unchanged_paths, overwrite_allowed,
                   resolver_queue, result, add_vars, n_execs, n_fails, fs0,
                   plan0, unchanged0, exec_fails, visits, last_op, repeated>>
    /\ UNCHANGED <<medium_vars, chain_vars, item_vars, race_vars>>

\* one iteration of the loop over the resolver queue, lines 339-352
ResolveStep(oserr) ==
    /\ pc = "resolve"
    /\ resolver_queue # <<>>
    /\ oserr => n_fails < MaxFails
    /\ LET current_item == Head(resolver_queue) IN
       \E new_path \in IF current_item.state = INDIRECTION_REQUIRED
                       THEN make_intermediate_path(current_item, fs)
                       ELSE {NoPath} :
         LET r == rename_conflicting(current_item, fs, overwrite_allowed,
                                     oserr, new_path)
             next == resolve_iteration(r, result, Tail(resolver_queue))
             failed == IF r.exc = "OSError" THEN 1 ELSE 0
         IN  /\ fs' = r.fs
             /\ result' = next.result
             /\ resolver_queue' = next.resolver_queue
             /\ last_exc' = r.exc
             /\ n_fails' = n_fails + failed
             /\ exec_fails' = exec_fails + failed
             /\ visits' = [visits EXCEPT ![current_item.source_path] = @ + 1]
             /\ pc' = IF Escapes(r.exc) THEN "idle" ELSE pc
             /\ last_op' = IF Escapes(r.exc) THEN "raised" ELSE last_op
    /\ UNCHANGED <<work_queue, unchanged_paths, overwrite_allowed, add_vars,
                   n_execs, fs0, plan0, unchanged0, repeated>>
    /\ UNCHANGED <<medium_vars, chain_vars, item_vars, race_vars>>

\* an execute that returns without clearing the no-op set
ExecuteReturn_keeps_unchanged ==
    /\ pc = "resolve"
    /\ resolver_queue = <<>>
    /\ pc' = "idle"
    /\ n_execs' = n_execs + 1
    /\ last_op' = "execute"
    /\ last_exc' = "none"
    /\ UNCHANGED <<fs, work_queue, unchanged_paths, overwrite_allowed,
                   resolver_queue, result, add_vars, n_fails, fs0, plan0,
                   unchanged0, exec_fails, visits, repeated>>
    /\ UNCHANGED <<medium_vars, chain_vars, item_vars, race_vars>>

\* the resolver queue is empty: lines 355-356
ExecuteReturn ==
    /\ pc = "resolve"
    /\ resolver_queue = <<>>
    /\ unchanged_paths' = {}
    /\ pc' = "idle"
    /\ n_execs' = n_execs + 1
    /\ last_op' = "execute"
    /\ last_exc' = "none"
    /\ UNCHANGED <<fs, work_queue, overwrite_allowed, resolver_queue, result,
                   add_vars, n_fails, fs0, plan0, unchanged0, exec_fails,
                   visits, repeated>>
    /\ UNCHANGED <<medium_vars, chain_vars, item_vars, race_vars>>

Next ==
    \/ \E source \in Paths, target \in Paths : Add(source, target)
    \/ \E ov \in {o \in SUBSET Paths : Cardinality(o) <= MaxOverwrite} :
           ExecuteBegin(ov)
    \/ \E oserr \in BOOLEAN : DirectStep(oserr)
    \/ DirectDone
    \/ \E oserr \in BOOLEAN : ResolveStep(oserr)
    \/ ExecuteReturn

Spec == Init /\ [][Next]_vars

\* execute() is a synchronous loop: once called it runs until it returns
FairSpec ==
    /\ Spec
    /\ WF_vars(\E oserr \in BOOLEAN : DirectStep(oserr))
    /\ WF_vars(DirectDone)
    /\ WF_vars(\E oserr \in BOOLEAN : ResolveStep(oserr))
    /\ WF_vars(ExecuteReturn)

TypeOK ==
    /\ fs \in [AllPaths -> {NoFile} \cup Paths]
    /\ pc \in {"idle", "direct", "resolve"}
    /\ \A i \in 1..Len(work_queue) : work_queue[i].state \in States
    /\ unchanged_paths \subseteq Paths

(* ------------------- audio_metadata.py: the Medium --------------------- *)

\* the Medium a caller starts from: a new one, or the medium of a
\* directory of up to BigTotal files
MediumInit ==
    /\ RenameInit
    /\ \A p \in AllPaths : fs[p] = NoFile
    /\ \/ \E total \in Totals :
              /\ medium = Medium("album", "artist", 1, total)
              /\ tracks = <<>>
       \/ \E n \in 1..BigTotal, length \in Lengths :
              \E read \in {read_directory(UnsidedNames(n), length)} :
                  medium = read.medium /\ tracks = read.tracks
       \/ \E file_names \in SidedDirectories :
              \E read \in {read_directory(file_names, 1)} :
                  medium = read.medium /\ tracks = read.tracks
    /\ call = NoCall
    /\ declared_before = NotDeclared
    /\ ChainIdle
    /\ ItemIdle
    /\ RaceIdle

\* medium.add_track(track)
AddTrack(track) ==
    /\ \E r \in {add_track(medium, tracks, track)} :
           /\ Len(r.tracks) <= MaxTracks \/ r.exc # "none"
           /\ medium' = r.medium
           /\ tracks' = r.tracks
           /\ call' = [op |-> "add_track", exc |-> r.exc,
                       member |-> track \in Members,
                       agrees |-> track \notin Disagreeing]
    /\ declared_before' = NotDeclared
    /\ UNCHANGED rename_vars
    /\ UNCHANGED <<chain_vars, item_vars, race_vars>>

\* medium.effective_total_tracks
EffectiveTotalTracks ==
    /\ \E r \in {effective_total_tracks(medium, tracks)} :
           call' = [op |-> "effective_total_tracks", exc |-> r.exc,
                    value |-> r.value]
    /\ declared_before' = NotDeclared
    /\ UNCHANGED <<medium, tracks, rename_vars>>
    /\ UNCHANGED <<chain_vars, item_vars, race_vars>>

\* medium.determine_errors()
DetermineErrors ==
    /\ \E r \in {determine_errors(medium, tracks)} :
           /\ medium' = r.medium
           /\ call' = [op |-> "determine_errors", exc |-> r.exc]
    /\ declared_before' = NotDeclared
    /\ UNCHANGED <<tracks, rename_vars>>
    /\ UNCHANGED <<chain_vars, item_vars, race_vars>>

\* medium.get_declared_sides()
GetDeclaredSides ==
    /\ \E r \in {get_declared_sides(medium, tracks)} :
           /\ medium' = r.medium
           /\ tracks' = r.tracks
           /\ call' = [op |-> "get_declared_sides", exc |-> r.exc,
                       sides |-> r.sides]
    /\ declared_before' = IF call.op = "get_declared_sides"
                          THEN [exc |-> call.exc, sides |-> call.sides]
                          ELSE NotDeclared
    /\ UNCHANGED rename_vars
    /\ UNCHANGED <<chain_vars, item_vars, race_vars>>

\* medium.guess_sides(*side_names)
GuessSides(side_names) ==
    /\ \E r \in {guess_sides(medium, tracks, side_names)} :
           /\ medium' = r.medium
           /\ tracks' = r.tracks
           /\ call' = [op |-> "guess_sides", exc |-> r.exc,
                       sides |-> r.sides]
    /\ declared_before' = NotDeclared
    /\ UNCHANGED rename_vars
    /\ UNCHANGED <<chain_vars, item_vars, race_vars>>

\* medium.set_sides(*side_names, first_side_tracks=first_side_tracks)
SetSides(side_names, first_side_tracks) ==
    /\ \E r \in {set_sides(medium, tracks, side_names, first_side_tracks)} :
           /\ medium' = r.medium
           /\ tracks' = r.tracks
           /\ call' = [op |-> "set_sides", exc |-> r.exc,
                       first_side_tracks |-> first_side_tracks]
    /\ declared_before' = NotDeclared
    /\ UNCHANGED rename_vars
    /\ UNCHANGED <<chain_vars, item_vars, race_vars>>

MediumNext ==
    \/ \E track \in Agreeing \cup Disagreeing \cup Members : AddTrack(track)
    \/ EffectiveTotalTracks
    \/ DetermineErrors
    \/ GetDeclaredSides
    \/ \E side_names \in SideNameArgs : GuessSides(side_names)
    \/ \E side_names \in SideNameArgs,
          first_side_tracks \in Boundaries(Len(tracks)) :
           SetSides(side_names, first_side_tracks)

\* a caller that builds a Medium and determines its sides
MediumSpec == MediumInit /\ [][MediumNext]_vars

(* --------------------- mbdata.py: the TranslatorChain ------------------ *)

\* TranslatorChain() and TranslatorChain(translator)
ChainInit ==
    /\ RenameInit
    /\ \A p \in AllPaths : fs[p] = NoFile
    /\ MediumIdle
    /\ ItemIdle
    /\ RaceIdle
    /\ \E n \in 0..1 : translators \in [1..n -> Translators]
    /\ translated = NotTranslated

\* chain.append(single_translator)
ChainAppend(single_translator) ==
    /\ Len(translators) < MaxChain
    /\ translators' = append(translators, single_translator)
    /\ translated' = NotTranslated
    /\ UNCHANGED <<rename_vars, medium_vars, item_vars, race_vars>>

\* chain.translate(text)
ChainTranslate(text) ==
    /\ translated' = [called |-> TRUE, text |-> text,
                      result |-> chain_translate(translators, text)]
    /\ UNCHANGED <<translators, rename_vars, medium_vars, item_vars, race_vars>>

ChainNext ==
    \/ \E single_translator \in Translators : ChainAppend(single_translator)
    \/ \E text \in Texts : ChainTranslate(text)

\* a caller that builds a chain and translates texts with it
ChainSpec == ChainInit /\ [][ChainNext]_vars

(* ------------------ safer_mass_rename.py: RenameItem calls ------------- *)

\* a directory of a few files, and no RenameItem yet
ItemInit ==
    /\ RenameInit
    /\ MediumIdle
    /\ ChainIdle
    /\ ItemIdle
    /\ RaceIdle

\* RenameItem(source_path, target_file_name), lines 99-119
ItemNew(source, target) ==
    /\ Len(items) < MaxItems
    /\ IF Exists(fs, source)
       THEN /\ items' = Append(items, RenameItem(source, target))
            /\ item_call' = [name |-> "RenameItem", index |-> Len(items) + 1,
                             exc |-> "none"]
       ELSE /\ items' = items
            /\ item_call' = [name |-> "RenameItem", index |-> 0,
                             exc |-> "ValueError"]
    /\ UNCHANGED <<fs, plan_vars, medium_vars, chain_vars, race_vars>>

\* items[index].do_rename(overwrite_allowed=ov)
ItemDoRename(index, ov, oserr) ==
    /\ index \in 1..Len(items)
    /\ \E r \in {do_rename(items[index], fs, ov, oserr)} :
           /\ items' = [items EXCEPT ![index] = r.item]
           /\ fs' = r.fs
           /\ item_call' = [name |-> "do_rename", index |-> index,
                            exc |-> r.exc]
    /\ UNCHANGED <<plan_vars, medium_vars, chain_vars, race_vars>>

\* items[index].rename_conflicting(overwrite_allowed=ov)
ItemRenameConflicting(index, ov, oserr) ==
    /\ index \in 1..Len(items)
    /\ \E new_path \in IF items[index].state = INDIRECTION_REQUIRED
                       THEN make_intermediate_path(items[index], fs)
                       ELSE {NoPath} :
         \E r \in {rename_conflicting(items[index], fs, ov, oserr, new_path)} :
           /\ items' = [items EXCEPT ![index] = r.item]
           /\ fs' = r.fs
           /\ item_call' = [name |-> "rename_conflicting", index |-> index,
                            exc |-> r.exc]
    /\ UNCHANGED <<plan_vars, medium_vars, chain_vars, race_vars>>

ItemNext ==
    \/ \E source \in Paths, target \in Paths : ItemNew(source, target)
    \/ \E index \in 1..MaxItems, oserr \in BOOLEAN :
         \E ov \in {o \in SUBSET Paths : Cardinality(o) <= MaxOverwrite} :
           ItemDoRename(index, ov, oserr)
    \/ \E index \in 1..MaxItems, oserr \in BOOLEAN :
         \E ov \in {o \in SUBSET Paths : Cardinality(o) <= MaxOverwrite} :
           ItemRenameConflicting(index, ov, oserr)

ItemSpec == ItemInit /\ [][ItemNext]_vars

(* --------------- audio_metadata.py: Medium.determine_errors ------------ *)

\* Medium(album, albumartist, medium_number, declared_total_tracks)
ErrorsInit ==
    /\ RenameInit
    /\ \A p \in AllPaths : fs[p] = NoFile
    /\ ChainIdle
    /\ ItemIdle
    /\ RaceIdle
    /\ \E total \in Totals : medium = Medium("album", "artist", 1, total)
    /\ tracks = <<>>
    /\ call = NoCall
    /\ declared_before = NotDeclared

\* medium.add_track(track), for a medium of up to MaxMembers tracks
AddMember(track) ==
    /\ \E r \in {add_track(medium, tracks, track)} :
           /\ Len(r.tracks) <= MaxMembers
           /\ medium' = r.medium
           /\ tracks' = r.tracks
           /\ call' = [op |-> "add_track", exc |-> r.exc,
                       member |-> track \in Members,
                       agrees |-> track \notin Disagreeing]
    /\ declared_before' = NotDeclared
    /\ UNCHANGED <<rename_vars, chain_vars, item_vars, race_vars>>

ErrorsNext ==
    \/ \E track \in Agreeing : AddMember(track)
    \/ DetermineErrors

ErrorsSpec == ErrorsInit /\ [][ErrorsNext]_vars

(* ---------------- audio_metadata.py: Medium.get_side_names ------------- *)

\* Medium(album, albumartist, medium_number, declared_total_tracks)
NamesInit ==
    /\ RenameInit
    /\ \A p \in AllPaths : fs[p] = NoFile
    /\ ChainIdle
    /\ ItemIdle
    /\ RaceIdle
    /\ \E medium_number \in 1..MaxMedium :
           medium = Medium("album", "artist", medium_number, None)
    /\ tracks = <<>>
    /\ call = NoCall
    /\ declared_before = NotDeclared

\* medium.get_side_names(*preset_side_names)
GetSideNames(preset_side_names) ==
    /\ \E r \in {get_side_names(medium, preset_side_names)} :
           call' = [op |-> "get_side_names", exc |-> r.exc,
                    preset_side_names |-> preset_side_names,
                    names |-> r.names]
    /\ declared_before' = NotDeclared
    /\ UNCHANGED <<medium, tracks, rename_vars, chain_vars, item_vars, race_vars>>

NamesNext == \E preset_side_names \in PresetArgs : GetSideNames(preset_side_names)

NamesSpec == NamesInit /\ [][NamesNext]_vars

(* ----------------- audio_metadata.py: Medium.guess_sides --------------- *)

\* a medium of up to MaxGuess tracks of any lengths
GuessInit ==
    /\ RenameInit
    /\ \A p \in AllPaths : fs[p] = NoFile
    /\ ChainIdle
    /\ ItemIdle
    /\ RaceIdle
    /\ \E n \in 0..MaxGuess, step \in 1..2 :
         \E lengths \in [1..n -> 0..MaxLength] :
           \E read \in {read_lengths(lengths, step)} :
               medium = read.medium /\ tracks = read.tracks
    /\ call = NoCall
    /\ declared_before = NotDeclared

GuessNext == \E side_names \in SideNameArgs : GuessSides(side_names)

GuessSpec == GuessInit /\ [][GuessNext]_vars

(* ------- safer_mass_rename.py: RenameItem and an external writer ------- *)

\* a directory of a few files and the RenameItem objects built for some
\* of them
RaceInit ==
    /\ RenameInit
    /\ MediumIdle
    /\ ChainIdle
    /\ RaceIdle
    /\ \E n \in 1..MaxItems :
           items \in [1..n -> {RenameItem(source, target) :
                                  source \in {p \in Paths : Exists(fs, p)},
                                  target \in Paths}]
    /\ item_call = NoItemCall

\* items[index].do_rename(overwrite_allowed=ov) up to the check of the
\* destination in __rename_path, lines 153-159 and 139-146
DoRenameCheck(index, ov) ==
    /\ renaming = NoRenaming
    /\ index \in 1..Len(items)
    /\ items[index].state = READY
    /\ \E exc \in {check_destination(fs, items[index].target_path, ov)} :
         IF exc = "none"
         THEN /\ renaming' = Renaming(index, items[index].source_path,
                                      items[index].target_path, ov, DONE)
              /\ UNCHANGED <<items, item_call>>
         ELSE /\ items' = [items EXCEPT ![index].state = INDIRECTION_REQUIRED]
              /\ item_call' = [name |-> "do_rename", index |-> index,
                               exc |-> exc]
              /\ UNCHANGED renaming
    /\ UNCHANGED <<fs, interference, plan_vars, medium_vars, chain_vars>>

\* items[index].rename_conflicting(), pass 1, up to the check of the
\* intermediate name: make_intermediate_path and lines 139-146
IntermediateCheck(index) ==
    /\ renaming = NoRenaming
    /\ index \in 1..Len(items)
    /\ items[index].state = INDIRECTION_REQUIRED
    /\ \E new_path \in make_intermediate_path(items[index], fs) :
           /\ check_destination(fs, new_path, {}) = "none"
           /\ items' = [items EXCEPT ![index].intermediate_path = new_path]
           /\ renaming' = Renaming(index, items[index].source_path, new_path,
                                   {}, INDIRECTION_IN_PROGRESS)
    /\ UNCHANGED <<fs, item_call, interference, plan_vars, medium_vars,
                   chain_vars>>

\* items[index].rename_conflicting(overwrite_allowed=ov), pass 2, up to the
\* check of the target, and of the source path when the target is occupied:
\* lines 199-210 and 139-146
FinalCheck(index, ov) ==
    /\ renaming = NoRenaming
    /\ index \in 1..Len(items)
    /\ items[index].state = INDIRECTION_IN_PROGRESS
    /\ IF check_destination(fs, items[index].target_path, ov) = "none"
       THEN /\ renaming' = Renaming(index, items[index].intermediate_path,
                                    items[index].target_path, ov, DONE)
            /\ UNCHANGED <<items, item_call>>
       ELSE IF check_destination(fs, items[index].source_path, {}) = "none"
       THEN /\ renaming' = Renaming(index, items[index].intermediate_path,
                                    items[index].source_path, {},
                                    INDIRECTION_FAILED)
            /\ UNCHANGED <<items, item_call>>
       ELSE /\ items' = [items EXCEPT ![index].state = INDIRECTION_FAILED]
            /\ item_call' = [name |-> "rename_conflicting", index |-> index,
                             exc |-> "DestinationPathExists"]
            /\ UNCHANGED renaming
    /\ UNCHANGED <<fs, interference, plan_vars, medium_vars, chain_vars>>

\* the rename of the __rename_path call that has passed its check, line 149,
\* and the rest of the method that called it
RenameChecked(oserr) ==
    /\ renaming # NoRenaming
    /\ \E r \in {rename_source(fs, renaming.source, renaming.target, oserr)} :
           /\ fs' = r.fs
           /\ items' = IF r.exc = "none"
                       THEN [items EXCEPT ![renaming.index].state = renaming.then]
                       ELSE items
           /\ item_call' =
                  [name |-> IF renaming.then = DONE
                                 /\ items[renaming.index].state = READY
                            THEN "do_rename" ELSE "rename_conflicting",
                   index |-> renaming.index,
                   exc |-> IF r.exc # "none" THEN r.exc
                           ELSE CASE renaming.then = INDIRECTION_IN_PROGRESS ->
                                         "FinalRenameRequired"
                                  [] renaming.then = INDIRECTION_FAILED ->
                                         "DestinationPathExists"
                                  [] OTHER -> "none"]
           /\ interference' =
                  [interference EXCEPT !.replaced =
                      \/ @
                      \/ /\ r.exc = "none"
                         /\ Exists(fs, renaming.target)
                         /\ renaming.target \notin renaming.ov]
    /\ renaming' = NoRenaming
    /\ UNCHANGED <<plan_vars, medium_vars, chain_vars>>

\* an external actor creates a file at a path where there is none
ExternalCreate(path) ==
    /\ interference.created < MaxCreated
    /\ ~Exists(fs, path)
    /\ fs' = [fs EXCEPT ![path] = ExternalFile]
    /\ interference' = [interference EXCEPT !.created = @ + 1]
    /\ UNCHANGED <<renaming, items, item_call, plan_vars, medium_vars,
                   chain_vars>>

RaceNext ==
    \/ \E index \in 1..MaxItems :
         \E ov \in {o \in SUBSET Paths : Cardinality(o) <= MaxOverwrite} :
           DoRenameCheck(index, ov)
    \/ \E index \in 1..MaxItems : IntermediateCheck(index)
    \/ \E index \in 1..MaxItems :
         \E ov \in {o \in SUBSET Paths : Cardinality(o) <= MaxOverwrite} :
           FinalCheck(index, ov)
    \/ \E oserr \in BOOLEAN : RenameChecked(oserr)
    \/ \E path \in AllPaths : ExternalCreate(path)

RaceSpec == RaceInit /\ [][RaceNext]_vars

(* ---- audio_metadata.py: sides assigned, files renamed and read again -- *)

\* the medium read from a directory of up to MaxRound files without sides
RoundInit ==
    /\ RenameInit
    /\ \A p \in AllPaths : fs[p] = NoFile
    /\ \E n \in 1..MaxRound :
           \E read \in {read_directory(UnsidedNames(n), 1)} :
               medium = read.medium /\ tracks = read.tracks
    /\ call = NoCall
    /\ declared_before = NotDeclared
    /\ ChainIdle
    /\ ItemIdle
    /\ RaceIdle

\* after a successful set_sides every file gets its suggested file name, and
\* the directory is read again into a new Medium
Relabel(include_medium_number) ==
    /\ call.op = "set_sides"
    /\ call.exc = "none"
    /\ \E read \in {read_directory(
                        [i \in 1..Len(tracks) |->
                            suggested_filename(tracks[i],
                                               include_medium_number)], 1)} :
           medium' = read.medium /\ tracks' = read.tracks
    /\ call' = [op |-> "relabel", exc |-> "none",
                first_side_tracks |-> call.first_side_tracks]
    /\ declared_before' = NotDeclared
    /\ UNCHANGED rename_vars
    /\ UNCHANGED <<chain_vars, item_vars, race_vars>>

RoundNext ==
    \/ \E first_side_tracks \in {Boundary(k) : k \in 0..Len(tracks)} :
           SetSides(<<>>, first_side_tracks)
    \/ \E include_medium_number \in BOOLEAN : Relabel(include_medium_number)
    \/ GetDeclaredSides

RoundSpec == RoundInit /\ [][RoundNext]_vars

(* ------- audio_metadata.py: set_sides with side names of a caller ------ *)

\* the medium read from a directory of up to MaxLabelled files without sides
LabelInit ==
    /\ RenameInit
    /\ \A p \in AllPaths : fs[p] = NoFile
    /\ \E n \in 1..MaxLabelled, length \in Lengths :
           \E read \in {read_directory(UnsidedNames(n), length)} :
               medium = read.medium /\ tracks = read.tracks
    /\ call = NoCall
    /\ declared_before = NotDeclared
    /\ ChainIdle
    /\ ItemIdle
    /\ RaceIdle

LabelNext ==
    \/ \E side_names \in LabelNames,
          first_side_tracks \in Boundaries(Len(tracks)) :
           SetSides(side_names, first_side_tracks)
    \/ GetDeclaredSides

LabelSpec == LabelInit /\ [][LabelNext]_vars

(* ------------------------- vocabulary of the claims -------------------- *)

\* execute() has returned and the caller holds its result
Returned == pc = "idle" /\ last_op = "execute"

\* an execute() is running or has just returned
Executing == pc # "idle" \/ Returned

\* an item's identity: its source and target path
Key(item) == <<item.source_path, item.target_path>>

Keys(seq) == {Key(seq[i]) : i \in 1..Len(seq)}

NoDuplicates(seq) ==
    \A i, j \in 1..Len(seq) : Key(seq[i]) = Key(seq[j]) => i = j

\* the items the result lists
Listed == Keys(result.renamed_files) \cup Keys(result.conflicts) \cup Keys(result.errors)

\* every target that exists when execute starts is the source of a plan item
OnlyInternalOverlaps ==
    \A item \in Range(plan0) :
        Exists(fs0, item.target_path) => item.target_path \in source_paths(plan0)

\* the item's target is held by a file outside the plan that may not be overwritten
BlockedFromOutside(item) ==
    /\ Exists(fs0, item.target_path)
    /\ item.target_path \notin source_paths(plan0)
    /\ item.target_path \notin overwrite_allowed

\* no target of the plan exists when execute starts
NoTargetExists ==
    \A item \in Range(plan0) : ~Exists(fs0, item.target_path)

IntermediatePaths == AllPaths \ Paths

(* ------------------------------- C1 ------------------------------------ *)

\* C1: a plan whose existing targets are all sources of other items of the
\* plan (cycles, swaps, chains), executed without OS failure, ends with every
\* item in renamed_files, no conflict, and each file's original content under
\* its item's target path.
C1_CyclesResolve ==
    (Returned /\ exec_fails = 0 /\ OnlyInternalOverlaps) =>
        /\ Keys(result.renamed_files) = Keys(plan0)
        /\ result.conflicts = <<>>
        /\ \A item \in Range(plan0) :
               fs[item.target_path] = fs0[item.source_path]

\* The same when overwrite_allowed names no source path of the plan.
C1_CyclesResolveWithoutOverwrite ==
    (overwrite_allowed \cap source_paths(plan0) = {}) => C1_CyclesResolve

(* ------------------------------- C2 ------------------------------------ *)

\* C2: an item whose target is occupied by a file that is neither a source of
\* the plan nor in overwrite_allowed ends in conflicts, and its source file is
\* at its source path with its original content after execute.  Stated for
\* the executes most favourable to the claim: no OS failure and an empty
\* overwrite_allowed.
C2_BlockedItemUntouched ==
    (Returned /\ exec_fails = 0 /\ overwrite_allowed = {}) =>
        \A item \in Range(plan0) :
            BlockedFromOutside(item) =>
                /\ Key(item) \in Keys(result.conflicts)
                /\ fs[item.source_path] = fs0[item.source_path]

(* ------------------------------- C3 ------------------------------------ *)

\* C3: if no target exists when execute starts and no rename raises an OS
\* error, every item is renamed in the direct pass (READY -> DONE), no
\* intermediate name is ever used, the resolver queue stays empty and the
\* result has no conflicts and no errors.
C3_DirectOnly ==
    (Executing /\ NoTargetExists /\ exec_fails = 0) =>
        /\ resolver_queue = <<>>
        /\ result.conflicts = <<>>
        /\ result.errors = <<>>
        /\ \A p \in IntermediatePaths : fs[p] = fs0[p]
        /\ \A p \in Paths : visits[p] = 0
        /\ \A item \in Range(result.renamed_files) :
               /\ item.state = DONE
               /\ item.intermediate_path = NoPath
               /\ fs[item.target_path] = fs0[item.source_path]
        /\ Keys(result.renamed_files) \cup Keys(work_queue) = Keys(plan0)
        /\ Len(result.renamed_files) + Len(work_queue) = Len(plan0)

C3_Witness ==
    /\ Returned /\ NoTargetExists /\ exec_fails = 0
    /\ Len(plan0) >= 2
    /\ Len(result.renamed_files) = Len(plan0)

(* ------------------------------- C4 ------------------------------------ *)

\* C4: whatever add() calls were made, no two queued items share a source
\* path, no two share a target path, no queued item has source = target, and
\* no recorded no-op path is the source or the target of a queued item.
C4_PlanInjective ==
    /\ \A i, j \in 1..Len(work_queue) :
           i # j => /\ work_queue[i].source_path # work_queue[j].source_path
                    /\ work_queue[i].target_path # work_queue[j].target_path
    /\ \A item \in Range(work_queue) : item.source_path # item.target_path
    /\ unchanged_paths \cap (source_paths(work_queue) \cup target_paths(work_queue)) = {}

C4_Witness ==
    /\ pc = "idle"
    /\ Len(work_queue) >= 2
    /\ unchanged_paths # {}
    /\ last_add.exc \in {"DuplicateSourcePath", "DuplicateTargetPath"}

(* ------------------------------- C5 ------------------------------------ *)

\* the last call was an add(), and no execute() has begun since
JustAdded == pc = "idle" /\ last_op = "add"

\* the last call was an add() of an existing file
AddedExistingFile == JustAdded /\ last_add.exc # "ValueError"

\* the paths the plan held before the last add()
PrevSources == source_paths(prev_queue) \cup prev_unchanged
PrevTargets == target_paths(prev_queue) \cup prev_unchanged

\* After N additions with pairwise distinct sources and pairwise distinct
\* targets that differ from their sources, len(plan) = N.
AddsCounted == (pc = "idle" /\ n_execs = 0 /\ clean_adds) => PlanLen = Cardinality(seen_sources)

\* A failing add() leaves the work queue and the no-op set as they were.
FailedAddChangesNothing ==
    (JustAdded /\ last_add.exc # "none") =>
        work_queue = prev_queue /\ unchanged_paths = prev_unchanged

\* C5 as stated: AddsCounted and FailedAddChangesNothing, an add() whose
\* source is a queued source or a no-op path fails with DuplicateSourcePath,
\* and an add() whose target is a queued target or a no-op path fails with
\* DuplicateTargetPath.
C5_AddAsStated ==
    /\ AddsCounted
    /\ FailedAddChangesNothing
    /\ AddedExistingFile =>
           /\ last_add.source \in PrevSources =>
                  last_add.exc = "DuplicateSourcePath"
           /\ last_add.target \in PrevTargets =>
                  last_add.exc = "DuplicateTargetPath"

\* C5, amended: as C5, but an add() whose target is a queued target or a
\* no-op path fails with DuplicateTargetPath when its source is neither a
\* queued source nor a no-op path (the source is checked first); and these
\* are the only ways an add() of an existing file fails.
C5_AddInjective ==
    /\ AddsCounted
    /\ FailedAddChangesNothing
    /\ AddedExistingFile =>
           /\ last_add.source \in PrevSources <=>
                  last_add.exc = "DuplicateSourcePath"
           /\ (last_add.source \notin PrevSources /\ last_add.target \in PrevTargets) <=>
                  last_add.exc = "DuplicateTargetPath"

C5_Witness ==
    /\ JustAdded
    /\ last_add.exc = "DuplicateTargetPath"
    /\ Len(work_queue) = 2
    /\ Len(prev_queue) = 2
    /\ last_add.target \in target_paths(prev_queue)

(* ------------------------------- C6 ------------------------------------ *)

\* C6: an accepted add() with source = target records the path in the no-op
\* set and leaves the work queue (and so len(plan)) unchanged; its item is in
\* state NO_RENAME_REQUIRED, which do_rename and rename_conflicting refuse to
\* leave and for which they move no file; and no item that the following
\* execute queues or lists has a no-op path as its source or its target.
C6_NoOp ==
    /\ (JustAdded /\ last_add.exc = "none" /\ last_add.source = last_add.target) =>
           /\ last_add.source \in unchanged_paths
           /\ work_queue = prev_queue
           /\ last_add.state = NO_RENAME_REQUIRED
           /\ LET item == RenameItem(last_add.source, last_add.target)
                  direct == do_rename(item, fs, Paths, FALSE)
                  indirect == rename_conflicting(item, fs, Paths, FALSE, NoPath)
              IN  /\ direct.item.state = NO_RENAME_REQUIRED /\ direct.fs = fs
                  /\ indirect.item.state = NO_RENAME_REQUIRED /\ indirect.fs = fs
    /\ Executing =>
           \A p \in unchanged0 :
               \A item \in Range(work_queue) \cup Range(resolver_queue)
                           \cup Range(result.renamed_files)
                           \cup Range(result.conflicts) \cup Range(result.errors) :
                   p # item.source_path /\ p # item.target_path

C6_Witness ==
    /\ Returned
    /\ unchanged0 # {}
    /\ Len(plan0) >= 2
    /\ result.renamed_files # <<>>

(* ------------------------------- C7 ------------------------------------ *)

\* C7: when execute returns, the work queue and the no-op set are empty;
\* an execute that directly follows another returns a result with no
\* renamed files, no conflicts and no errors, and changes no file.
C7_Consumed ==
    Returned =>
        /\ work_queue = <<>>
        /\ unchanged_paths = {}
        /\ repeated => result = MassRenamingResult /\ fs = fs0

C7_Witness ==
    /\ Returned
    /\ repeated
    /\ n_fails > 0
    /\ \E p \in AllPaths : fs[p] # NoFile /\ fs[p] # p

(* ------------------------------- C8 ------------------------------------ *)

\* C8: every item queued when execute started is in exactly one of
\* renamed_files, conflicts and errors when it returns, also when renames
\* raise OS errors; and until then every item not yet listed is still
\* queued, so that an OS error on one item takes no later item out of the
\* direct or the resolution pass.
C8_Partition ==
    Executing =>
        /\ NoDuplicates(work_queue \o resolver_queue \o result.renamed_files
                        \o result.conflicts \o result.errors)
        /\ Keys(work_queue) \cup Keys(resolver_queue) \cup Listed = Keys(plan0)
        /\ Len(work_queue) + Len(resolver_queue) + Len(result.renamed_files)
             + Len(result.conflicts) + Len(result.errors) = Len(plan0)
        /\ Returned => work_queue = <<>> /\ resolver_queue = <<>>
        /\ pc = "resolve" => work_queue = <<>>

C8_Witness ==
    /\ Returned
    /\ Len(plan0) = 3
    /\ Len(result.errors) = 1
    /\ Key(plan0[1]) \in Keys(result.errors)
    /\ Len(result.renamed_files) = 2

(* ------------------------------- C9 ------------------------------------ *)

\* every deferred item is taken from the resolver queue at most twice; an
\* item waiting for its first visit is in INDIRECTION_REQUIRED; an item
\* waiting for its second visit is in INDIRECTION_IN_PROGRESS and its file is
\* under its intermediate name; a listed item is in one of the defined states
ResolutionBounded ==
    /\ \A p \in Paths : visits[p] <= 2
    /\ \A item \in Range(resolver_queue) :
           \/ /\ visits[item.source_path] = 0
              /\ item.state = INDIRECTION_REQUIRED
           \/ /\ visits[item.source_path] = 1
              /\ item.state = INDIRECTION_IN_PROGRESS
              /\ item.intermediate_path \in IntermediateNames(item.source_path)
              /\ Exists(fs, item.intermediate_path)
    /\ \A item \in Range(result.renamed_files) \cup Range(result.conflicts)
                   \cup Range(result.errors) :
           item.state \in States

\* C9: execute always terminates (make_intermediate_path yielding a name that
\* does not exist): a started execute returns, and until then
\* ResolutionBounded holds.
C9_Terminates ==
    /\ []ResolutionBounded
    /\ (pc # "idle") ~> Returned

C9_Witness ==
    /\ Returned
    /\ \E p, q \in Paths : p # q /\ visits[p] = 2 /\ visits[q] = 1
    /\ result.conflicts # <<>>

(* ------------------------------- C10 ----------------------------------- *)

\* C10: in the direct pass, an item whose target exists is renamed at once
\* (the occupant overwritten, state DONE, in renamed_files) only if the target
\* is in overwrite_allowed, and then it is unless the operating system
\* refuses; if the target is not in overwrite_allowed no file moves, the item
\* gets INDIRECTION_REQUIRED and goes to the end of the resolver queue, and
\* the direct pass goes on with the next item.
C10_DirectPass ==
    [][(pc = "direct" /\ work_queue # <<>>
          /\ Exists(fs, Head(work_queue).target_path)) =>
         LET item == Head(work_queue)
             source == item.source_path
             target == item.target_path
             renamed ==
                 /\ fs'[target] = fs[source]
                 /\ fs'[source] = NoFile
                 /\ \A p \in AllPaths \ {source, target} : fs'[p] = fs[p]
                 /\ result' = [result EXCEPT !.renamed_files =
                                  Append(@, [item EXCEPT !.state = DONE])]
                 /\ resolver_queue' = resolver_queue
             deferred ==
                 /\ fs' = fs
                 /\ result' = result
                 /\ resolver_queue' =
                        Append(resolver_queue,
                               [item EXCEPT !.state = INDIRECTION_REQUIRED])
         IN  /\ (target \in overwrite_allowed /\ last_exc' # "OSError") => renamed
             /\ target \notin overwrite_allowed => deferred
             /\ result'.renamed_files # result.renamed_files =>
                    target \in overwrite_allowed
             /\ pc' = "direct"
             /\ work_queue' = Tail(work_queue)
      ]_vars

C10_Witness ==
    /\ pc = "direct"
    /\ Len(result.renamed_files) = 1
    /\ Exists(fs0, result.renamed_files[1].target_path)
    /\ result.renamed_files[1].target_path \in overwrite_allowed
    /\ Len(resolver_queue) = 1
    /\ fs[resolver_queue[1].source_path] = fs0[resolver_queue[1].source_path]
    /\ work_queue # <<>>

(* -------------------- vocabulary of the Medium claims ------------------ *)

\* the sided positions of the tracks, in the order the tracks were added
Positions(ts) == [i \in 1..Len(ts) |-> ts[i].sided_position]

\* the last call was the named method and it returned
Succeeded(op) == call.op = op /\ call.exc = "none"

\* determine_errors, called on the medium as it is, reports an issue
ReportsErrors ==
    With(determine_errors(medium, tracks), LAMBDA checked :
        checked.exc = "none" /\ HasErrors(checked.medium.errors))

(* ------------------------------- C11 ----------------------------------- *)

\* C11: whenever determine_errors reports an issue, set_sides fails with the
\* aggregated error (a ValueError) and every track's sided position is the
\* same after the call as before it.
C11_AllOrNothing ==
    [][(call'.op = "set_sides" /\ ReportsErrors) =>
           /\ call'.exc = "ValueError"
           /\ Positions(tracks') = Positions(tracks)]_vars

(* ------------------------------- C12 ----------------------------------- *)

\* the distinct side names the file names of the tracks carry
FileSideNames(ts) ==
    {from_file_name(ts[i].file_name).pos.side_name :
         i \in {j \in 1..Len(ts) :
                    from_file_name(ts[j].file_name).exc = "none"}}

\* C12: set_sides without a boundary, on a medium whose file names carry
\* more than two distinct side names, fails and leaves every track's sided
\* position as it was.
C12_TooManySidesAbort ==
    [][(/\ call'.op = "set_sides"
        /\ ~call'.first_side_tracks.given
        /\ Cardinality(FileSideNames(tracks)) > 2) =>
           /\ call'.exc # "none"
           /\ Positions(tracks') = Positions(tracks)]_vars

(* ------------------------------- C13 ----------------------------------- *)

\* the track numbers a side allows
Allowed(side) == Range(allowed_track_numbers(side))

\* C13: after every successful set_sides, with N the effective total, the
\* two sides hold N tracks together, the first between 0 and N, and their
\* allowed track numbers are disjoint and make up 1..N.
C13_SidesPartition ==
    Succeeded("set_sides") =>
        With(effective_total_tracks(medium, tracks).value, LAMBDA N :
            /\ medium.sides[1].number_of_tracks
                   + medium.sides[2].number_of_tracks = N
            /\ medium.sides[1].number_of_tracks \in 0..N
            /\ Allowed(medium.sides[1]) \cap Allowed(medium.sides[2]) = {}
            /\ Allowed(medium.sides[1]) \cup Allowed(medium.sides[2]) = 1..N)

\* a successful set_sides has split a medium into two sides that both hold
\* more than one track
C13_Witness ==
    /\ Succeeded("set_sides")
    /\ medium.sides[1].number_of_tracks > 1
    /\ medium.sides[2].number_of_tracks > 1

(* ------------------------------- C14 ----------------------------------- *)

\* the sided position of the track numbered n
PositionOf(n) == tracks[medium.tracks_map[n]].sided_position

\* the track numbered n is on the given side: it has the side's name, its
\* index within the side, and the bare side name as its label when the
\* side holds one track only
OnSide(n, side) ==
    /\ PositionOf(n).side_name = side.name
    /\ PositionOf(n).number = n - side.track_number_offset
    /\ side.number_of_tracks = 1 => PositionOf(n).position = side.name

\* the side that allows the track number n
SideOf(n) ==
    IF n <= medium.sides[1].maximum_track_number
    THEN medium.sides[1] ELSE medium.sides[2]

\* the side name contains no decimal digit
Digitless(name) == \A i \in 1..Len(name) : ~IsDigit(name[i])

OutOfRange(first_side_tracks) ==
    /\ first_side_tracks.given
    /\ effective_total_tracks(medium, tracks).exc = "none"
    /\ \/ first_side_tracks.value < 0
       \/ first_side_tracks.value
              > effective_total_tracks(medium, tracks).value

\* C15: set_sides with an explicit boundary below 0 or above the effective
\* total fails with a ValueError, no track's sided position changes and
\* the sides of the medium keep their previous value.
C15_BadBoundaryRejected ==
    [][(call'.op = "set_sides" /\ OutOfRange(call'.first_side_tracks)) =>
           /\ call'.exc = "ValueError"
           /\ Positions(tracks') = Positions(tracks)
           /\ medium'.sides = medium.sides]_vars

\* a set_sides with a boundary out of range has failed on a medium that
\* holds the sides and the positions of an earlier successful set_sides
C15_Witness ==
    /\ call.op = "set_sides"
    /\ call.exc = "ValueError"
    /\ OutOfRange(call.first_side_tracks)
    /\ medium.sides # NoSides
    /\ \E i \in 1..Len(tracks) : tracks[i].sided_position # NoPosition

(* ------------------------------- C16 ----------------------------------- *)

\* the track numbers present among the member tracks
PresentNumbers ==
    {tracks[i].track_number : i \in medium.all_tracks} \ {None}

\* C16: effective_total_tracks is the declared total when one is set and
\* not zero; otherwise the maximum track number present among the members
\* when a member has a track number, and the member count when none has.
C16_EffectiveTotal ==
    call.op = "effective_total_tracks" =>
        /\ call.exc = "none"
        /\ call.value =
               IF medium.declared_total_tracks \notin {None, 0}
               THEN medium.declared_total_tracks
               ELSE IF PresentNumbers # {} THEN SetMax(PresentNumbers)
               ELSE counted_tracks(medium)

(* ------------------------------- C17 ----------------------------------- *)

\* the track agrees with the medium on album, album artist, medium number
\* and total tracks
Agrees(track) ==
    /\ track.ALBUM = medium.album
    /\ track.ALBUMARTIST = medium.albumartist
    /\ track.medium_number = medium.medium_number
    /\ track.total_tracks = medium.declared_total_tracks

\* C17: add_track rejects a track that differs from the medium in album,
\* album artist, medium number or total tracks, and the rejected call leaves
\* the member set, the track-number map and the duplicate bucket unchanged;
\* so every member agrees with the medium on the four fields.
C17_MembersAgree ==
    /\ [](\A i \in medium.all_tracks : Agrees(tracks[i]))
    /\ [][(call'.op = "add_track" /\ ~call'.agrees) =>
              /\ call'.exc = "ValueError"
              /\ medium'.all_tracks = medium.all_tracks
              /\ medium'.tracks_map = medium.tracks_map
              /\ medium'.duplicate_tracks = medium.duplicate_tracks
              /\ tracks' = tracks]_vars

\* add_track has rejected a disagreeing track on a medium that holds a
\* duplicate
C17_Witness ==
    /\ call.op = "add_track"
    /\ ~call.agrees
    /\ call.exc = "ValueError"
    /\ medium.duplicate_tracks # {}

(* ------------------------------- C18 ----------------------------------- *)

\* C18: of two consecutive get_declared_sides calls the second ends as the
\* first did: it raises if the first raised, and else it returns the same
\* first-side track count and the same two side names.
C18_DeclaredSidesIdempotent ==
    (call.op = "get_declared_sides" /\ declared_before # NotDeclared) =>
        /\ call.exc = declared_before.exc
        /\ call.sides = declared_before.sides

\* get_declared_sides has returned sides twice in a row, on a medium whose
\* tracks had positions that an explicit set_sides gave them
C18_Witness ==
    /\ Succeeded("get_declared_sides")
    /\ declared_before # NotDeclared
    /\ medium.sides # NoSides
    /\ call.sides # medium.sides

(* ------------------------------- C19 ----------------------------------- *)

\* the medium holds tracks numbered 1..N without gaps or duplicates, for
\* some N >= 1, that all have the same duration
EqualDurations ==
    /\ tracks # <<>>
    /\ medium.all_tracks = 1..Len(tracks)
    /\ DOMAIN medium.tracks_map = 1..Len(tracks)
    /\ \A i \in 1..Len(tracks) : /\ medium.tracks_map[i] = i
                                 /\ tracks[i].track_number = i
                                 /\ tracks[i].length = tracks[1].length

\* C19: on a medium of N equal-duration tracks numbered 1..N the first-side
\* track count k that guess_sides returns satisfies |k - N/2| <= 1.
C19_GuessNearHalf ==
    (Succeeded("guess_sides") /\ EqualDurations) =>
        Abs(2 * call.sides[1].maximum_track_number - Len(tracks)) <= 2

(* ------------------------------- C20 ----------------------------------- *)

\* the least number of a set of track numbers
SetMin(S) == CHOOSE x \in S : \A y \in S : x <= y

\* the track numbers whose tracks carry a side in their file names
Sided == {n \in DOMAIN medium.tracks_map : PositionOf(n) # NoPosition}

\* the track numbers of the tracks that carry another side name than the
\* first sided track does
OnSecondSide ==
    {n \in Sided :
         PositionOf(n).side_name # PositionOf(SetMin(Sided)).side_name}

\* C20: get_declared_sides returns as boundary the track number of the
\* first track, in ascending order, that carries the second distinct side
\* name, minus that track's index within its side, and the effective total
\* when one side name only occurs.
C20_DeclaredBoundary ==
    Succeeded("get_declared_sides") =>
        call.sides[1].maximum_track_number =
            IF OnSecondSide = {}
            THEN effective_total_tracks(medium, tracks).value
            ELSE SetMin(OnSecondSide) - PositionOf(SetMin(OnSecondSide)).number

(* -------------------- vocabulary of the chain claims ------------------- *)

\* the text after the first n translators of the chain have been applied
RECURSIVE After(_, _)
After(n, text) ==
    IF n = 0 THEN text
    ELSE translate(translators[n], After(n - 1, text))

\* original occurs in text
Occurs(original, text) ==
    \E i \in 1..(Len(text) - Len(original) + 1) :
        SubSeq(text, i, i + Len(original) - 1) = original

(* ------------------------------- C21 ----------------------------------- *)

\* C21: translate applies the translators in the order of the list, each to
\* the output of the one before it, and returns the text unchanged when the
\* chain is empty or no translator's original occurs in the text.
C21_TranslateFolds ==
    translated.called =>
        /\ translated.result = After(Len(translators), translated.text)
        /\ translators = <<>> => translated.result = translated.text
        /\ (\A i \in 1..Len(translators) :
                ~Occurs(translators[i].original, translated.text))
               => translated.result = translated.text

\* a chain of three translators has translated a text into another one that
\* its translators give in no other order
C21_Witness ==
    /\ translated.called
    /\ Len(translators) = 3
    /\ translated.result # translated.text
    /\ translated.result
           # translate(translators[1],
                       translate(translators[2],
                                 translate(translators[3], translated.text)))

(* ------------------------------- C22 ----------------------------------- *)

\* the state changes RenameItem allows
Transitions ==
    {<<READY, DONE>>,
     <<READY, INDIRECTION_REQUIRED>>,
     <<INDIRECTION_REQUIRED, INDIRECTION_IN_PROGRESS>>,
     <<INDIRECTION_IN_PROGRESS, DONE>>,
     <<INDIRECTION_IN_PROGRESS, INDIRECTION_FAILED>>}

\* the states the method of the last call accepts
Accepts(name) ==
    CASE name = "do_rename" -> {READY}
      [] name = "rename_conflicting" ->
             {INDIRECTION_REQUIRED, INDIRECTION_IN_PROGRESS}
      [] OTHER -> States

\* C22: whatever methods are called on the items, in whatever order, an
\* item's state changes only along READY->DONE, READY->INDIRECTION_REQUIRED,
\* INDIRECTION_REQUIRED->INDIRECTION_IN_PROGRESS, INDIRECTION_IN_PROGRESS->DONE
\* and INDIRECTION_IN_PROGRESS->INDIRECTION_FAILED (so DONE,
\* INDIRECTION_FAILED and NO_RENAME_REQUIRED are never left), and a do_rename
\* or rename_conflicting called on an item in a state it does not accept
\* raises ValueError and leaves every file and the item as they were.
C22_StateMachine ==
    [][/\ \A i \in 1..Len(items) :
              \/ items'[i].state = items[i].state
              \/ <<items[i].state, items'[i].state>> \in Transitions
       /\ \A i \in 1..Len(items) :
              (/\ item_call'.index = i
               /\ items[i].state \notin Accepts(item_call'.name))
              => (/\ item_call'.exc = "ValueError"
                  /\ fs' = fs
                  /\ items' = items)]_vars

\* a finished item and a failed item exist, and the last call was a
\* rename_conflicting on the finished one, which was rejected
C22_Witness ==
    /\ \E i \in 1..Len(items) : items[i].state = INDIRECTION_FAILED
    /\ item_call.name = "rename_conflicting"
    /\ item_call.exc = "ValueError"
    /\ item_call.index \in 1..Len(items)
    /\ items[item_call.index].state = DONE

(* ------------------------------- C23 ----------------------------------- *)

\* the resolution pass is about to visit an item for the second time, and
\* the item's target exists and may not be overwritten
SecondVisitBlocked ==
    /\ pc = "resolve"
    /\ resolver_queue # <<>>
    /\ Head(resolver_queue).state = INDIRECTION_IN_PROGRESS
    /\ Exists(fs, Head(resolver_queue).target_path)
    /\ Head(resolver_queue).target_path \notin overwrite_allowed

\* the item of that visit, given up
GivenUp == [Head(resolver_queue) EXCEPT !.state = INDIRECTION_FAILED]

SecondVisitDue ==
    /\ pc = "resolve"
    /\ resolver_queue # <<>>
    /\ Head(resolver_queue).state = INDIRECTION_IN_PROGRESS

\* the deferred items whose first visit moved them to an intermediate name
Relocated ==
    {item \in Range(resolver_queue) \cup Range(result.renamed_files)
              \cup Range(result.conflicts) \cup Range(result.errors) :
        /\ item.intermediate_path # NoPath
        /\ item.state # INDIRECTION_REQUIRED}

\* the item was given up and its file moved back to its source path
RolledBack(item) ==
    /\ item.state = INDIRECTION_FAILED
    /\ ~Exists(fs, item.intermediate_path)

\* C24: when a deferred item is about to receive its second visit, every
\* item still queued has received its first visit and no second one; hence
\* if the visited item's target is the source path of another deferred item
\* that was moved to an intermediate name, that path is free, unless the
\* other item has been rolled back onto it.
C24_FirstVisitsFirst ==
    SecondVisitDue =>
        /\ \A i \in 1..Len(resolver_queue) :
               /\ resolver_queue[i].state = INDIRECTION_IN_PROGRESS
               /\ visits[resolver_queue[i].source_path] = 1
        /\ \A other \in Relocated :
               (/\ other.source_path = Head(resolver_queue).target_path
                /\ ~RolledBack(other))
               => ~Exists(fs, Head(resolver_queue).target_path)

\* a second visit is due for an item whose target is the source path of
\* another queued item; both are at intermediate names and the target is free
C24_Witness ==
    /\ SecondVisitDue
    /\ Len(resolver_queue) >= 2
    /\ \E other \in Relocated \cap Range(resolver_queue) :
           /\ other.source_path = Head(resolver_queue).target_path
           /\ Exists(fs0, other.source_path)
           /\ ~Exists(fs, other.source_path)

(* ------------------------------- C25 ----------------------------------- *)

\* the step is an add_track call that accepted its track
TrackAdded == Len(tracks') = Len(tracks) + 1

\* C25: when add_track accepts a track whose track number is already a key
\* of tracks_map, the map stays as it was (the entry keeps the track added
\* first), and the new track is in the duplicate bucket and in all_tracks;
\* and at any time every value of tracks_map is a member of all_tracks whose
\* track number is its key.
C25_DuplicatesSetAside ==
    /\ [](\A n \in DOMAIN medium.tracks_map :
              /\ medium.tracks_map[n] \in medium.all_tracks
              /\ tracks[medium.tracks_map[n]].track_number = n)
    /\ [][(/\ TrackAdded
           /\ tracks'[Len(tracks')].track_number \in DOMAIN medium.tracks_map)
          => (/\ medium'.tracks_map = medium.tracks_map
              /\ Len(tracks') \in medium'.duplicate_tracks
              /\ Len(tracks') \notin medium.duplicate_tracks
              /\ Len(tracks') \in medium'.all_tracks)]_vars

\* the last call added a second track with the number of the first: the
\* first is in the map, the second in the duplicate bucket
C25_Witness ==
    /\ call.op = "add_track"
    /\ call.exc = "none"
    /\ Len(tracks) = 2
    /\ tracks[1].track_number = tracks[2].track_number
    /\ tracks[1].track_number # None
    /\ medium.tracks_map[tracks[1].track_number] = 1
    /\ medium.duplicate_tracks = {2}
    /\ medium.all_tracks = {1, 2}

(* ------------------------------- C26 ----------------------------------- *)

\* some track number is claimed by two members of the medium
ClaimedTwice ==
    \E i \in medium.all_tracks, j \in medium.all_tracks :
        /\ i # j
        /\ tracks[i].track_number # None
        /\ tracks[i].track_number = tracks[j].track_number

\* two members have no track number (both claim the map key None)
UnnumberedTwice ==
    \E i \in medium.all_tracks, j \in medium.all_tracks :
        i # j /\ tracks[i].track_number = None /\ tracks[j].track_number = None

\* some key of tracks_map lies outside 1..total
MappedOutside(total) == \E n \in DOMAIN medium.tracks_map : n \notin 1..total

\* C26: determine_errors, with N the effective total and c the member count
\* before the call, leaves an error map that holds the ignored-tracks
\* category exactly when some track number is claimed by two members or some
\* mapped number lies outside 1..N, the missing-total category with value
\* N - c exactly when N > c, the surplus-total category with value c - N
\* exactly when c > N, and the missing-track-numbers category with exactly
\* the numbers of 1..N that no mapped track carries.
C26_ErrorCategories ==
    [][(/\ call'.op = "determine_errors"
        /\ effective_total_tracks(medium, tracks).exc = "none")
       => \E N \in {effective_total_tracks(medium, tracks).value} :
          \E c \in {counted_tracks(medium)} :
            /\ (medium'.errors.ignored_tracks # {})
                   <=> (ClaimedTwice \/ UnnumberedTwice \/ MappedOutside(N))
            /\ medium'.errors.missing_total = IF N > c THEN N - c ELSE 0
            /\ medium'.errors.surplus_total = IF c > N THEN c - N ELSE 0
            /\ medium'.errors.missing_track_numbers =
                   {n \in 1..N : n \notin DOMAIN medium.tracks_map}]_vars

(* ------------------------------- C27 ----------------------------------- *)

\* the track numbers of the mapped tracks whose file name carries a side name
SidedNumbers ==
    {n \in DOMAIN medium.tracks_map :
        tracks[medium.tracks_map[n]].sided_position # NoPosition}

\* the side name of the mapped track with that number
SideNameAt(n) == tracks[medium.tracks_map[n]].sided_position.side_name

\* the distinct side names among the mapped tracks
MappedSideNames == {SideNameAt(n) : n \in SidedNumbers}

\* the least track number at which the side name appears
FirstAt(name) == SetMin({n \in SidedNumbers : SideNameAt(n) = name})

\* the last call was get_declared_sides, which returned the side names in
\* the order of their first appearance by ascending track number
ReturnedInOrder ==
    /\ call.exc = "none"
    /\ call.sides[1].name \in MappedSideNames
    /\ \A name \in MappedSideNames : FirstAt(call.sides[1].name) <= FirstAt(name)
    /\ Cardinality(MappedSideNames) = 2 =>
           /\ call.sides[2].name \in MappedSideNames
           /\ call.sides[2].name # call.sides[1].name

ImpliedBoundaries ==
    {n - tracks[medium.tracks_map[n]].sided_position.number :
        n \in {k \in SidedNumbers :
                  FirstAt(SideNameAt(k)) # SetMin(SidedNumbers)}}

DefaultNames(medium_number) ==
    get_side_names(Medium("album", "artist", medium_number, None), <<>>).names

\* the name with its last character replaced by the next code point
LastCharacterAdvanced(name) ==
    [i \in 1..Len(name) |-> IF i = Len(name) THEN name[i] + 1 ELSE name[i]]

\* C28: get_side_names without a name returns, for medium number m, the
\* characters with the code points 63 + 2m and 64 + 2m, which the default
\* names of no other medium number share; with exactly one (non-empty) name
\* it returns that name and the name with its last character replaced by
\* its code-point successor.
C28_SideNames ==
    call.op = "get_side_names" =>
        /\ Len(call.preset_side_names) = 0 =>
               /\ call.exc = "none"
               /\ call.names = <<<<63 + 2 * medium.medium_number>>,
                                 <<64 + 2 * medium.medium_number>>>>
               /\ \A other \in (1..MaxMedium) \ {medium.medium_number} :
                      \A i \in 1..2, j \in 1..2 :
                          call.names[i] # DefaultNames(other)[j]
        /\ (/\ Len(call.preset_side_names) = 1
            /\ call.preset_side_names[1] # <<>>) =>
               /\ call.exc = "none"
               /\ call.names =
                      <<call.preset_side_names[1],
                        LastCharacterAdvanced(call.preset_side_names[1])>>

\* medium 2 was asked for its default names, which are C and D
C28_Witness ==
    /\ call.op = "get_side_names"
    /\ medium.medium_number = 2
    /\ call.preset_side_names = <<>>
    /\ call.names = <<<<67>>, <<68>>>>

(* ------------------------------- C29 ----------------------------------- *)

\* the mapped track numbers in ascending order
MappedNumbers == Sorted(DOMAIN medium.tracks_map)

\* acc(j): the accumulated duration of the first j mapped tracks
RECURSIVE Accumulated(_)
Accumulated(j) ==
    IF j = 0 THEN 0
    ELSE Accumulated(j - 1) + tracks[medium.tracks_map[MappedNumbers[j]]].length

\* d(j) = |T - 2 * acc(j)|, T the total duration of the mapped tracks
Difference(j) ==
    Abs(Accumulated(Len(MappedNumbers)) - 2 * Accumulated(j))

\* every track up to track j improves the balance
ImprovingUpTo(j) == \A i \in 1..j : Difference(i) < Difference(i - 1)

\* the last track up to which every track improves the balance, 0 if the
\* first does not
LastImproving ==
    SetMax({j \in 0..Len(MappedNumbers) : ImprovingUpTo(j)})

\* C29: the boundary guess_sides returns is the track number of the last
\* track j for which d(1) < d(0), .., d(j) < d(j-1) all hold, and 0 if
\* d(1) >= d(0): the walk stops at the first track that does not improve
\* the balance, even if a later track has a smaller d.
C29_FirstLocalMinimum ==
    (call.op = "guess_sides" /\ call.exc = "none") =>
        call.sides[1].maximum_track_number =
            IF LastImproving = 0 THEN 0 ELSE MappedNumbers[LastImproving]

\* guess_sides stopped at a track that did not improve the balance, before a
\* later track with a smaller d
C29_Witness ==
    /\ call.op = "guess_sides"
    /\ call.exc = "none"
    /\ LastImproving > 0
    /\ call.sides[1].maximum_track_number = MappedNumbers[LastImproving]
    /\ MappedNumbers[LastImproving] # LastImproving
    /\ \E j \in 1..Len(MappedNumbers) :
           j > LastImproving /\ Difference(j) < Difference(LastImproving)

(* ------------------------------- C30 ----------------------------------- *)

\* C30: guess_sides fails whenever no split improves the balance, that is,
\* whenever the first track's accumulated duration does not reduce the
\* difference |T - 2 * acc| below T.
C30_FailsWithoutImprovement ==
    (/\ call.op = "guess_sides"
     /\ MappedNumbers # <<>>
     /\ ~(Difference(1) < Difference(0))) => call.exc # "none"

(* ------------------------------- C31 ----------------------------------- *)

\* the first side's track count of the sides a call hands back
BoundaryOf(found) == found.sides[1].maximum_track_number

\* C31: a set_sides that succeeds has chosen the boundary by strict
\* priority: the explicit first_side_tracks when one is given; without it
\* the boundary get_declared_sides returns whenever that call succeeds; and
\* the boundary guess_sides returns only when get_declared_sides fails.
C31_BoundaryPriority ==
    [][(call'.op = "set_sides" /\ call'.exc = "none") =>
         \E declared \in {get_declared_sides(medium, tracks)} :
         \E guessed \in {guess_sides(medium, tracks, <<>>)} :
           BoundaryOf(medium') =
               IF call'.first_side_tracks.given
               THEN call'.first_side_tracks.value
               ELSE IF declared.exc = "none" THEN BoundaryOf(declared)
               ELSE BoundaryOf(guessed)]_vars

\* set_sides without a boundary succeeded on files that carry sides whose
\* declared boundary differs from the guess
C31_Witness ==
    /\ call.op = "set_sides"
    /\ call.exc = "none"
    /\ ~call.first_side_tracks.given
    /\ Cardinality(FileSideNames(tracks)) = 2
    /\ guess_sides(medium, tracks, <<>>).exc = "none"
    /\ BoundaryOf(medium) # BoundaryOf(guess_sides(medium, tracks, <<>>))

(* ------------------------------- C32 ----------------------------------- *)

\* C32: a call of get_declared_sides or of guess_sides leaves every track's
\* sided position, the track-number map, the recorded errors and the sides
\* attribute of the medium as they were before the call.
C32_DeterminationIsPure ==
    [][call'.op \in {"get_declared_sides", "guess_sides"} =>
           /\ tracks' = tracks
           /\ medium'.tracks_map = medium.tracks_map
           /\ medium'.errors = medium.errors
           /\ medium'.sides = medium.sides]_vars

(* ------------------------------- C33 ----------------------------------- *)

\* C33: a rename replaces a file that is not in overwrite_allowed only if
\* an external actor has created a file (between the check of the
\* destination and the rename); without an external actor it never does.
C33_ReplacedOnlyByRace ==
    interference.replaced => interference.created > 0

\* an external actor created a file at the destination after the check, and
\* the rename has replaced it: the external file is gone
C33_Witness ==
    /\ interference.replaced
    /\ interference.created = 1
    /\ renaming = NoRenaming
    /\ \A p \in AllPaths : fs[p] # ExternalFile

(* ------------------------------- C34 ----------------------------------- *)

\* the two directories hold the same file contents, each as often
SameContents(f, g) ==
    \A c \in (1..ExternalFile) :
        Cardinality({p \in AllPaths : f[p] = c})
            = Cardinality({p \in AllPaths : g[p] = c})

\* the step moves one file to a path where there was none
MovedToFreePath ==
    \E source \in AllPaths, target \in AllPaths :
        /\ Exists(fs, source)
        /\ ~Exists(fs, target)
        /\ fs' = OsRename(fs, source, target)

\* C34: execute with an empty overwrite_allowed never destroys a file: every
\* rename it performs has a destination that does not exist at that moment,
\* and the directory holds the same file contents as when execute started,
\* whatever OS errors occur.
C34_NothingDestroyed ==
    /\ [][(pc # "idle" /\ overwrite_allowed = {} /\ fs' # fs)
              => MovedToFreePath]_vars
    /\ [](overwrite_allowed = {} => SameContents(fs0, fs))

\* an execute with an empty overwrite_allowed has returned after an OS error
\* and after an item went over its intermediate name, and has moved files
C34_Witness ==
    /\ Returned
    /\ overwrite_allowed = {}
    /\ exec_fails > 0
    /\ fs # fs0
    /\ \E p \in Paths : visits[p] = 2

(* ------------------------------- C35 ----------------------------------- *)

\* C35: for every overwrite_allowed set, after execute every item listed in
\* renamed_files has at its target path exactly the content that was at its
\* source path when execute started, and no file that was the source of a
\* plan item has been overwritten (its content is still in the directory).
C35_SourcesSurvive ==
    Returned =>
        /\ \A item \in Range(result.renamed_files) :
               fs[item.target_path] = fs0[item.source_path]
        /\ \A item \in Range(plan0) :
               Exists(fs0, item.source_path) =>
                   \E p \in AllPaths : fs[p] = fs0[item.source_path]

(* ------------------------------- C36 ----------------------------------- *)

\* the states of the items in a list of the result
StatesIn(list) == {list[i].state : i \in 1..Len(list)}

\* C36: in the result execute returns, an item is in renamed_files if and
\* only if its final state is DONE, in conflicts if and only if its final
\* state is INDIRECTION_FAILED, and every item in errors is in READY,
\* INDIRECTION_REQUIRED or INDIRECTION_IN_PROGRESS; every item of the plan
\* is in one of the three lists.
C36_ListsMatchStates ==
    Returned =>
        /\ StatesIn(result.renamed_files) \subseteq {DONE}
        /\ StatesIn(result.conflicts) \subseteq {INDIRECTION_FAILED}
        /\ StatesIn(result.errors) \subseteq
               {READY, INDIRECTION_REQUIRED, INDIRECTION_IN_PROGRESS}
        /\ Listed = Keys(plan0)

\* an execute has returned a renamed item, a conflict and an error
C36_Witness ==
    /\ Returned
    /\ result.renamed_files # <<>>
    /\ result.conflicts # <<>>
    /\ result.errors # <<>>

(* ------------------------------- C37 ----------------------------------- *)

\* the (side name, index within the side) pair of the i-th member track
SidedPair(i) ==
    <<tracks[i].sided_position.side_name, tracks[i].sided_position.number>>

\* C37: after a successful set_sides with two different side names, every
\* member track of the medium has a sided position, and the (side name,
\* index within the side) pairs of the member tracks are pairwise distinct.
C37_PositionsDistinct ==
    (Succeeded("set_sides") /\ medium.sides[1].name # medium.sides[2].name) =>
        /\ \A i \in 1..Len(tracks) : tracks[i].sided_position # NoPosition
        /\ \A i \in 1..Len(tracks), j \in 1..Len(tracks) :
               i # j => SidedPair(i) # SidedPair(j)

(* ------------------------------- C38 ----------------------------------- *)

\* C38: when the files of the tracks 1..N carry exactly the sided positions
\* that set_sides(first_side_tracks=k) assigned, with 1 <= k <= N, then
\* get_declared_sides returns the boundary k.
C38_RoundTrip ==
    [][(/\ call.op = "relabel"
        /\ call'.op = "get_declared_sides"
        /\ call.first_side_tracks.value \in 1..Len(tracks)) =>
           /\ call'.exc = "none"
           /\ BoundaryOf(call') = call.first_side_tracks.value]_vars

\* get_declared_sides has read a boundary in the middle of ten or more files
\* named "d1A01. x", ... after their positions
C38_Witness ==
    /\ Succeeded("get_declared_sides")
    /\ Len(tracks) >= 10
    /\ BoundaryOf(call) \in 2..(Len(tracks) - 2)
    /\ \A i \in 1..Len(tracks) :
           /\ tracks[i].file_name[1] = 100
           /\ tracks[i].sided_position # NoPosition

(* ------------------------------- C39 ----------------------------------- *)

\* the Medium that add_track builds from the first n member tracks
RECURSIVE Built(_)
Built(n) ==
    IF n = 0
    THEN Medium(medium.album, medium.albumartist, medium.medium_number,
                medium.declared_total_tracks)
    ELSE add_track(Built(n - 1), SubSeq(tracks, 1, n - 1), tracks[n]).medium

\* no call has changed the medium since its tracks were added
FreshlyBuilt ==
    /\ medium.tracks_map = Built(Len(tracks)).tracks_map
    /\ medium.duplicate_tracks = Built(Len(tracks)).duplicate_tracks

\* the member tracks carry exactly the numbers 1..N, each exactly once
ExactNumbers(N) ==
    /\ \A i \in medium.all_tracks : tracks[i].track_number \in 1..N
    /\ \A n \in 1..N :
           Cardinality({i \in medium.all_tracks :
                            tracks[i].track_number = n}) = 1

\* C39: determine_errors, when it returns on a freshly built medium, reports
\* no error if and only if the member tracks carry exactly the numbers 1..N, each exactly
\* once, with N the effective total; and once it has reported an error, the
\* next call on the unmodified medium reports at least one error too.
C39_ErrorsExactAndLasting ==
    [][call'.op = "determine_errors" =>
          /\ (FreshlyBuilt /\ call'.exc = "none") =>
                 (~HasErrors(medium'.errors) <=>
                      ExactNumbers(effective_total_tracks(medium, tracks).value))
          /\ (call.op = "determine_errors" /\ HasErrors(medium.errors)) =>
                 HasErrors(medium'.errors)]_vars

\* a repeated determine_errors still reports an error although the track it
\* had ignored is no longer listed
C39_Witness ==
    /\ call.op = "determine_errors"
    /\ HasErrors(medium.errors)
    /\ medium.errors.ignored_tracks = {}
    /\ ~FreshlyBuilt

(* ------------------------------- C40 ----------------------------------- *)

\* C40: set_sides is atomic for every cause of failure: whenever the call
\* raises, no track's sided position has changed and the sides attribute of
\* the medium still holds its previous value.
C40_FailureChangesNothing ==
    [][(call'.op = "set_sides" /\ call'.exc # "none") =>
           /\ Positions(tracks') = Positions(tracks)
           /\ medium'.sides = medium.sides]_vars

====
